---- MODULE Spec2Model ----
(***************************************************************************)
(* Model of the payment integration layer:                                 *)
(*   src/api/webhook.js         webhook ingress (attribution cascade,      *)
(*                              transaction merge)                         *)
(*   src/api/save-utm-query.js  attribution capture ingress                *)
(*   src/api/verifyPayment.js   status poll endpoint                       *)
(*                                                                         *)
(* JavaScript strings are sequences of UTF-16 code units (naturals); each  *)
(* literal is followed by a comment that spells it.  JavaScript values are *)
(* records tagged by their type in field t.  An absent property and the    *)
(* value undefined are the same record, Undef: JSON.stringify drops        *)
(* undefined properties, so the two files hold, and JSON.parse gives back, *)
(* exactly the values of this representation.                              *)
(***************************************************************************)
EXTENDS Integers, Sequences, FiniteSets, TLC

VARIABLES
    transactionsFile,   \* os.tmpdir()/transactions.json
    utmQueriesFile,     \* os.tmpdir()/utm_queries.json
    last,               \* the request handled last and its response
    pc,                 \* per worker process: position in the webhook handler
    local               \* per worker process: the handler's local variables

vars == <<transactionsFile, utmQueriesFile, last, pc, local>>

-----------------------------------------------------------------------------
(* JavaScript values *)

Undef == [t |-> "undefined"]
Null == [t |-> "null"]
Str(s) == [t |-> "string", s |-> s]
Bool(b) == [t |-> "boolean", b |-> b]
Num(n) == [t |-> "number", n |-> n]
\* an object of a request body: f maps property names to values
Obj(f) == [t |-> "object", f |-> f]
\* an object or array produced by JSON.parse of a string: o maps keys (strings
\* as code units) to values
JsonObj(o) == [t |-> "json_object", o |-> o]
JsonArr(a) == [t |-> "json_array", a |-> a]

\* ToBoolean
Truthy(v) ==
    CASE v.t = "undefined" -> FALSE
      [] v.t = "null" -> FALSE
      [] v.t = "string" -> v.s # <<>>
      [] v.t = "boolean" -> v.b
      [] v.t = "number" -> v.n # 0
      [] OTHER -> TRUE

\* a || b
Or(a, b) == IF Truthy(a) THEN a ELSE b

\* obj.name for an object of a request body; a primitive has no such property
Get(v, name) ==
    IF v.t = "object" /\ name \in DOMAIN v.f THEN v.f[name] ELSE Undef

\* obj[key] for a value produced by JSON.parse
GetJson(v, key) ==
    IF v.t = "json_object" /\ key \in DOMAIN v.o THEN v.o[key] ELSE Undef

MinOf(S) == CHOOSE x \in S : \A y \in S : x <= y
MaxOf(S) == CHOOSE x \in S : \A y \in S : x >= y

RECURSIVE DecimalDigits(_)
DecimalDigits(n) ==
    IF n < 10 THEN <<48 + n>> ELSE DecimalDigits(n \div 10) \o <<48 + (n % 10)>>

\* String(v), and the ToString that JSON.parse(v) and RegExp.exec(v) apply to v
JsToString(v) ==
    CASE v.t = "string" -> v.s
      [] v.t = "undefined" -> <<117, 110, 100, 101, 102, 105, 110, 101, 100>>  \* 'undefined'
      [] v.t = "null" -> <<110, 117, 108, 108>>  \* 'null'
      [] v.t = "boolean" ->
            IF v.b THEN <<116, 114, 117, 101>>  \* 'true'
            ELSE <<102, 97, 108, 115, 101>>  \* 'false'
      [] v.t = "number" ->
            IF v.n < 0 THEN <<45>> \o DecimalDigits(0 - v.n) ELSE DecimalDigits(v.n)
      [] OTHER ->
            <<91, 111, 98, 106, 101, 99, 116, 32, 79, 98, 106, 101, 99, 116, 93>>  \* '[object Object]'

\* WhiteSpace and LineTerminator code units: the regular expression class \s
\* and the characters String.prototype.trim strips
IsWhiteSpace(c) ==
    \/ c \in {9, 10, 11, 12, 13, 32, 160, 5760, 8232, 8233, 8239, 8287, 12288, 65279}
    \/ (c >= 8192 /\ c <= 8202)

\* String.prototype.trim
trim(s) ==
    LET keep == {i \in 1..Len(s) : ~IsWhiteSpace(s[i])}
    IN  IF keep = {} THEN <<>> ELSE SubSeq(s, MinOf(keep), MaxOf(keep))

\* String.prototype.toLowerCase / toUpperCase on the ASCII letters; the status
\* strings of the model are ASCII
toLowerCase(s) == [i \in 1..Len(s) |-> IF s[i] >= 65 /\ s[i] <= 90 THEN s[i] + 32 ELSE s[i]]
toUpperCase(s) == [i \in 1..Len(s) |-> IF s[i] >= 97 /\ s[i] <= 122 THEN s[i] - 32 ELSE s[i]]

-----------------------------------------------------------------------------
(* decodeURIComponent: percent-decoding of UTF-8, URIError on a malformed   *)
(* escape.  Result: [threw, value].                                         *)

IsHex(c) == (c >= 48 /\ c <= 57) \/ (c >= 65 /\ c <= 70) \/ (c >= 97 /\ c <= 102)
HexVal(c) == IF c <= 57 THEN c - 48 ELSE IF c <= 70 THEN c - 55 ELSE c - 87

\* the octet written %XY at position k of s, or -1 when there is none
OctetAt(s, k) ==
    IF k + 2 <= Len(s) /\ s[k] = 37 /\ IsHex(s[k + 1]) /\ IsHex(s[k + 2])
    THEN 16 * HexVal(s[k + 1]) + HexVal(s[k + 2])
    ELSE -1

\* the UTF-16 code units of code point cp
CodeUnits(cp) ==
    IF cp < 65536 THEN <<cp>>
    ELSE <<55296 + ((cp - 65536) \div 1024), 56320 + ((cp - 65536) % 1024)>>

URIError == [threw |-> TRUE, value |-> <<>>]

RECURSIVE Decode(_, _)
Decode(s, k) ==
    IF k > Len(s) THEN [threw |-> FALSE, value |-> <<>>]
    ELSE IF s[k] # 37 THEN
        LET rest == Decode(s, k + 1)
        IN  IF rest.threw THEN URIError
            ELSE [threw |-> FALSE, value |-> <<s[k]>> \o rest.value]
    ELSE
        LET B == OctetAt(s, k)
            n == IF B >= 192 /\ B <= 223 THEN 2
                 ELSE IF B >= 224 /\ B <= 239 THEN 3
                 ELSE IF B >= 240 /\ B <= 247 THEN 4
                 ELSE 0
            cont(j) == OctetAt(s, k + 3 * j)
            contOk == \A j \in 1..(n - 1) : cont(j) >= 128 /\ cont(j) <= 191
            cp == IF n = 2 THEN (B - 192) * 64 + (cont(1) - 128)
                  ELSE IF n = 3 THEN (B - 224) * 4096 + (cont(1) - 128) * 64 + (cont(2) - 128)
                  ELSE (B - 240) * 262144 + (cont(1) - 128) * 4096
                       + (cont(2) - 128) * 64 + (cont(3) - 128)
            cpOk == IF n = 2 THEN cp >= 128
                    ELSE IF n = 3 THEN cp >= 2048 /\ ~(cp >= 55296 /\ cp <= 57343)
                    ELSE cp >= 65536 /\ cp <= 1114111
        IN  IF B < 0 THEN URIError
            ELSE IF B < 128 THEN
                LET rest == Decode(s, k + 3)
                IN  IF rest.threw THEN URIError
                    ELSE [threw |-> FALSE, value |-> <<B>> \o rest.value]
            ELSE IF n = 0 \/ ~contOk THEN URIError
            ELSE IF ~cpOk THEN URIError
            ELSE
                LET rest == Decode(s, k + 3 * n)
                IN  IF rest.threw THEN URIError
                    ELSE [threw |-> FALSE, value |-> CodeUnits(cp) \o rest.value]

decodeURIComponent(s) == Decode(s, 1)

-----------------------------------------------------------------------------
(* /ttclid=([^&\s]+)/.exec(s): the leftmost occurrence of 'ttclid=' that is *)
(* followed by a character other than & and white space; the group is the  *)
(* longest run of such characters.  Result: [matched, group].               *)

RegexChar(c) == c # 38 /\ ~IsWhiteSpace(c)

ttclidRegexExec(s) ==
    LET key == <<116, 116, 99, 108, 105, 100, 61>>  \* 'ttclid='
        n == Len(s)
        starts == {i \in 1..n : /\ i + 7 <= n
                                /\ SubSeq(s, i, i + 6) = key
                                /\ RegexChar(s[i + 7])}
    IN  IF starts = {} THEN [matched |-> FALSE, group |-> <<>>]
        ELSE LET i == MinOf(starts)
                 ends == {j \in (i + 7)..n : \A k \in (i + 7)..j : RegexChar(s[k])}
             IN  [matched |-> TRUE, group |-> SubSeq(s, i + 7, MaxOf(ends))]

-----------------------------------------------------------------------------
(* JSON.parse of a string.  Result: [ok, val, pos]; ok is FALSE where       *)
(* JSON.parse throws SyntaxError.  The grammar covers objects, arrays,      *)
(* strings with their escapes, integers, true, false and null; numbers with *)
(* a fraction or an exponent are outside it and no input of the model       *)
(* holds one.                                                               *)

JsonFail == [ok |-> FALSE, val |-> Undef, pos |-> 0]
JsonOk(v, p) == [ok |-> TRUE, val |-> v, pos |-> p]

RECURSIVE SkipWs(_, _)
SkipWs(s, i) ==
    IF i <= Len(s) /\ s[i] \in {9, 10, 13, 32} THEN SkipWs(s, i + 1) ELSE i

HasAt(s, i, w) == i + Len(w) - 1 <= Len(s) /\ SubSeq(s, i, i + Len(w) - 1) = w

\* the character an escape \c stands for, or -1
EscapeOf(c) ==
    CASE c = 34 -> 34 [] c = 92 -> 92 [] c = 47 -> 47 [] c = 98 -> 8
      [] c = 102 -> 12 [] c = 110 -> 10 [] c = 114 -> 13 [] c = 116 -> 9
      [] OTHER -> -1

\* the rest of a string literal from position i, after its opening quote
RECURSIVE JsonStringTail(_, _, _)
JsonStringTail(s, i, acc) ==
    IF i > Len(s) \/ s[i] < 32 THEN JsonFail
    ELSE IF s[i] = 34 THEN JsonOk(Str(acc), i + 1)
    ELSE IF s[i] # 92 THEN JsonStringTail(s, i + 1, Append(acc, s[i]))
    ELSE IF i + 1 > Len(s) THEN JsonFail
    ELSE IF s[i + 1] = 117 THEN
        IF i + 5 <= Len(s) /\ \A j \in 2..5 : IsHex(s[i + j])
        THEN JsonStringTail(s, i + 6,
                 Append(acc, 4096 * HexVal(s[i + 2]) + 256 * HexVal(s[i + 3])
                             + 16 * HexVal(s[i + 4]) + HexVal(s[i + 5])))
        ELSE JsonFail
    ELSE IF EscapeOf(s[i + 1]) < 0 THEN JsonFail
    ELSE JsonStringTail(s, i + 2, Append(acc, EscapeOf(s[i + 1])))

IsDigit(c) == c >= 48 /\ c <= 57

RECURSIVE JsonDigits(_, _, _)
JsonDigits(s, i, acc) ==
    IF i <= Len(s) /\ IsDigit(s[i]) THEN JsonDigits(s, i + 1, 10 * acc + (s[i] - 48))
    ELSE JsonOk(Num(acc), i)

\* -?(0|[1-9][0-9]*)
JsonNumber(s, i) ==
    LET neg == i <= Len(s) /\ s[i] = 45
        j == IF neg THEN i + 1 ELSE i
    IN  IF j > Len(s) \/ ~IsDigit(s[j]) THEN JsonFail
        ELSE IF s[j] = 48 THEN JsonOk(Num(0), j + 1)
        ELSE LET d == JsonDigits(s, j, 0)
             IN  JsonOk(Num(IF neg THEN 0 - d.val.n ELSE d.val.n), d.pos)

RECURSIVE JsonValue(_, _)
RECURSIVE JsonMembers(_, _, _)
RECURSIVE JsonElements(_, _, _)

\* the members of an object from position i (at a key), o being those read so far
JsonMembers(s, i, o) ==
    LET k == SkipWs(s, i)
    IN  IF k > Len(s) \/ s[k] # 34 THEN JsonFail
        ELSE LET key == JsonStringTail(s, k + 1, <<>>)
                 c == SkipWs(s, key.pos)
             IN  IF ~key.ok \/ c > Len(s) \/ s[c] # 58 THEN JsonFail
                 ELSE LET v == JsonValue(s, c + 1)
                          e == SkipWs(s, v.pos)
                          o2 == [x \in DOMAIN o \cup {key.val.s} |->
                                    IF x = key.val.s THEN v.val ELSE o[x]]
                      IN  IF ~v.ok \/ e > Len(s) THEN JsonFail
                          ELSE IF s[e] = 125 THEN JsonOk(JsonObj(o2), e + 1)
                          ELSE IF s[e] = 44 THEN JsonMembers(s, e + 1, o2)
                          ELSE JsonFail

\* the elements of an array from position i, a being those read so far
JsonElements(s, i, a) ==
    LET v == JsonValue(s, i)
        e == SkipWs(s, v.pos)
    IN  IF ~v.ok \/ e > Len(s) THEN JsonFail
        ELSE IF s[e] = 93 THEN JsonOk(JsonArr(Append(a, v.val)), e + 1)
        ELSE IF s[e] = 44 THEN JsonElements(s, e + 1, Append(a, v.val))
        ELSE JsonFail

JsonValue(s, i) ==
    LET k == SkipWs(s, i)
    IN  IF k > Len(s) THEN JsonFail
        ELSE IF s[k] = 34 THEN JsonStringTail(s, k + 1, <<>>)
        ELSE IF s[k] = 123 THEN
            LET m == SkipWs(s, k + 1)
            IN  IF m <= Len(s) /\ s[m] = 125 THEN JsonOk(JsonObj(<<>>), m + 1)
                ELSE JsonMembers(s, k + 1, <<>>)
        ELSE IF s[k] = 91 THEN
            LET m == SkipWs(s, k + 1)
            IN  IF m <= Len(s) /\ s[m] = 93 THEN JsonOk(JsonArr(<<>>), m + 1)
                ELSE JsonElements(s, k + 1, <<>>)
        ELSE IF HasAt(s, k, <<116, 114, 117, 101>>) THEN JsonOk(Bool(TRUE), k + 4)  \* 'true'
        ELSE IF HasAt(s, k, <<102, 97, 108, 115, 101>>) THEN JsonOk(Bool(FALSE), k + 5)  \* 'false'
        ELSE IF HasAt(s, k, <<110, 117, 108, 108>>) THEN JsonOk(Null, k + 4)  \* 'null'
        ELSE JsonNumber(s, k)

\* the whole text must be one value
JsonWhole(s, r) ==
    IF r.ok /\ SkipWs(s, r.pos) > Len(s) THEN [threw |-> FALSE, value |-> r.val]
    ELSE [threw |-> TRUE, value |-> Undef]

\* JSON.parse(v): [threw, value]
JSONparse(v) == JsonWhole(JsToString(v), JsonValue(JsToString(v), 1))

-----------------------------------------------------------------------------
(* The values that requests carry as ttclid, utmQuery, metadata.utmQuery    *)
(* and utm.                                                                 *)

DirectTtclid == Str(<<68, 50>>)  \* 'D2'
QueryGood == Str(<<116, 116, 99, 108, 105, 100, 61, 81, 51>>)  \* 'ttclid=Q3'
QueryJson == Str(<<123, 34, 116, 116, 99, 108, 105, 100, 34, 58, 34, 74, 51, 34, 125>>)  \* '{"ttclid":"J3"}'
QueryMalformed == Str(<<116, 116, 99, 108, 105, 100, 61, 37, 69, 48, 37, 65, 52, 37, 65>>)  \* 'ttclid=%E0%A4%A'
QueryNoMatch == Str(<<117, 116, 109, 95, 115, 111, 117, 114, 99, 101, 61, 116, 105, 107, 116, 111, 107>>)  \* 'utm_source=tiktok'
MetaGood == Str(<<116, 116, 99, 108, 105, 100, 61, 77, 52>>)  \* 'ttclid=M4'
UtmGood == Str(<<116, 116, 99, 108, 105, 100, 61, 97, 98, 99, 37, 50, 48, 100, 101, 102, 38, 120, 61, 49>>)  \* 'ttclid=abc%20def&x=1'
UtmOtherName == Str(<<110, 111, 116, 116, 116, 99, 108, 105, 100, 61, 120>>)  \* 'notttclid=x'
UtmMalformed == Str(<<120, 61, 49, 38, 116, 116, 99, 108, 105, 100, 61, 37>>)  \* 'x=1&ttclid=%'
SavedGood == Str(<<117, 116, 109, 95, 115, 111, 117, 114, 99, 101, 61, 116, 116, 38, 116, 116, 99, 108, 105, 100, 61, 83, 49>>)  \* 'utm_source=tt&ttclid=S1'
SavedJson == Str(<<123, 34, 117, 116, 109, 95, 115, 111, 117, 114, 99, 101, 34, 58, 34, 116, 116, 34, 44, 34, 116, 116, 99, 108, 105, 100, 34, 58, 34, 74, 49, 34, 125>>)  \* '{"utm_source":"tt","ttclid":"J1"}'
\* an object sent as utmQuery, as pagamento/payment-api.js line 78 builds it
QueryObject == Obj([ttclid |-> Str(<<79, 49>>)])  \* 'O1'

\* every value a request offers as utmQuery, metadata.utmQuery or utm
RequestBlobs ==
    {QueryGood, QueryJson, QueryMalformed, QueryNoMatch, MetaGood, UtmGood,
     UtmOtherName, UtmMalformed, SavedGood, SavedJson, QueryObject}

-----------------------------------------------------------------------------
(* src/api/webhook.js: extractTtclidFromUtmQuery.  Result: [threw, value];  *)
(* threw is TRUE when decodeURIComponent throws URIError out of it.         *)

Returned(v) == [threw |-> FALSE, value |-> v]
Thrown == [threw |-> TRUE, value |-> Undef]

\* lines 45 and 173: return decodeURIComponent(matches[1])
returnDecoded(decoded) ==
    IF decoded.threw THEN Thrown ELSE Returned(Str(decoded.value))

\* lines 44-47 and 172-175, given the result of the exec
decodeMatch(matches) ==
    IF matches.matched /\ matches.group # <<>>
    THEN returnDecoded(decodeURIComponent(matches.group))
    ELSE Returned(Null)

\* lines 43-47 and 171-175: the query-string match and its decoding
matchAndDecode(s) == decodeMatch(ttclidRegexExec(s))

\* lines 35-47, given what JSON.parse(utmQuery) did
extractAfterParse(utmQuery, parsed) ==
    IF /\ ~parsed.threw /\ Truthy(parsed.value)
       /\ Truthy(GetJson(parsed.value, <<116, 116, 99, 108, 105, 100>>))  \* 'ttclid'
    THEN Returned(GetJson(parsed.value, <<116, 116, 99, 108, 105, 100>>))  \* 'ttclid'
    ELSE matchAndDecode(JsToString(utmQuery))

\* lines 31-48
parseThenMatch(utmQuery) ==
    IF ~Truthy(utmQuery) THEN Returned(Null)
    ELSE extractAfterParse(utmQuery, JSONparse(utmQuery))

\* The two extractions are computed once for the strings the requests carry.
QueryStringResults == [s \in {v.s : v \in {b \in RequestBlobs : b.t = "string"}} |-> matchAndDecode(s)]
UtmQueryResults == [v \in RequestBlobs |-> parseThenMatch(v)]

extractFromQueryString(s) ==
    IF s \in DOMAIN QueryStringResults THEN QueryStringResults[s] ELSE matchAndDecode(s)

extractTtclidFromUtmQuery(utmQuery) ==
    IF utmQuery \in RequestBlobs THEN UtmQueryResults[utmQuery] ELSE parseThenMatch(utmQuery)

-----------------------------------------------------------------------------
(* The two files.  A file is [state, data]: state "missing" (fs.existsSync  *)
(* is false), "corrupt" (readFileSync or JSON.parse throws) or "ok" (data   *)
(* is the object the file holds, a map from key to value).                  *)

MissingFile == [state |-> "missing", data |-> <<>>]
CorruptFile == [state |-> "corrupt", data |-> <<>>]
OkFile(d) == [state |-> "ok", data |-> d]

\* the names of the functions every object inherits from Object.prototype
inheritedFunctions ==
    { <<99, 111, 110, 115, 116, 114, 117, 99, 116, 111, 114>>,  \* 'constructor'
      <<104, 97, 115, 79, 119, 110, 80, 114, 111, 112, 101, 114, 116, 121>>,  \* 'hasOwnProperty'
      <<105, 115, 80, 114, 111, 116, 111, 116, 121, 112, 101, 79, 102>>,  \* 'isPrototypeOf'
      <<112, 114, 111, 112, 101, 114, 116, 121, 73, 115, 69, 110, 117, 109, 101, 114, 97, 98, 108, 101>>,  \* 'propertyIsEnumerable'
      <<116, 111, 76, 111, 99, 97, 108, 101, 83, 116, 114, 105, 110, 103>>,  \* 'toLocaleString'
      <<116, 111, 83, 116, 114, 105, 110, 103>>,  \* 'toString'
      <<118, 97, 108, 117, 101, 79, 102>>,  \* 'valueOf'
      <<95, 95, 100, 101, 102, 105, 110, 101, 71, 101, 116, 116, 101, 114, 95, 95>>,  \* '__defineGetter__'
      <<95, 95, 100, 101, 102, 105, 110, 101, 83, 101, 116, 116, 101, 114, 95, 95>>,  \* '__defineSetter__'
      <<95, 95, 108, 111, 111, 107, 117, 112, 71, 101, 116, 116, 101, 114, 95, 95>>,  \* '__lookupGetter__'
      <<95, 95, 108, 111, 111, 107, 117, 112, 83, 101, 116, 116, 101, 114, 95, 95>> }  \* '__lookupSetter__'

\* obj[key] when obj has no property of its own under key: what it inherits
inherited(key) ==
    IF key = <<95, 95, 112, 114, 111, 116, 111, 95, 95>>  \* '__proto__'
    THEN Obj(<<>>)  \* Object.prototype
    ELSE IF key \in inheritedFunctions THEN [t |-> "function"]
    ELSE Undef

\* obj[key] on a map read from a file
Lookup(map, key) == IF key \in DOMAIN map THEN map[key] ELSE inherited(key)

\* obj[key] = value, value being an object: under '__proto__' the assignment
\* sets the prototype of obj and gives it no property of its own
Assign(map, key, value) ==
    IF key = <<95, 95, 112, 114, 111, 116, 111, 95, 95>>  \* '__proto__'
    THEN map
    ELSE [k \in DOMAIN map \cup {key} |-> IF k = key THEN value ELSE map[k]]

\* if (fs.existsSync(F)) { try { x = JSON.parse(fs.readFileSync(F)) } catch (e) { } }
\* with x = {} before it: webhook.js 119-124, save-utm-query.js 34-43,
\* verifyPayment.js 104-109
loadFile(file) == IF file.state = "ok" THEN file.data ELSE <<>>

-----------------------------------------------------------------------------
(* src/api/webhook.js: handler                                              *)

\* the extraction with transactionId read before transaction_id
extractTransactionIdCamelFirst(payload) ==
    LET id == Get(payload, "_id")
    IN  IF Truthy(Get(payload, "transactionId")) THEN Get(payload, "transactionId")
        ELSE IF Truthy(Get(payload, "transaction_id")) THEN Get(payload, "transaction_id")
        ELSE IF Truthy(id) /\ Truthy(Get(id, "$oid")) THEN Get(id, "$oid")
        ELSE IF Truthy(id) /\ id.t = "string" THEN id
        ELSE Null

\* lines 70-74
extractTransactionId(payload) ==
    LET id == Get(payload, "_id")
    IN  IF Truthy(Get(payload, "transaction_id")) THEN Get(payload, "transaction_id")
        ELSE IF Truthy(Get(payload, "transactionId")) THEN Get(payload, "transactionId")
        ELSE IF Truthy(id) /\ Truthy(Get(id, "$oid")) THEN Get(id, "$oid")
        ELSE IF Truthy(id) /\ id.t = "string" THEN id
        ELSE Null

\* lines 110-116
paidStatuses ==
    { <<99, 111, 110, 102, 105, 114, 109, 97, 100, 111>>,  \* 'confirmado'
      <<112, 97, 103, 111>>,  \* 'pago'
      <<112, 97, 105, 100>>,  \* 'paid'
      <<99, 111, 109, 112, 108, 101, 116, 101, 100>>,  \* 'completed'
      <<97, 112, 114, 111, 118, 97, 100, 111>>,  \* 'aprovado'
      <<97, 112, 112, 114, 111, 118, 101, 100>>,  \* 'approved'
      <<67, 79, 77, 80, 76, 69, 84, 69, 68>> }  \* 'COMPLETED'

\* the paid determination comparing the status as it is written
webhookIsPaidExact(status) ==
    Truthy(status) /\ status.s \in paidStatuses

\* lines 82-83 and 110-116: status is a string or null
webhookIsPaid(status) ==
    /\ Truthy(status)
    /\ \/ toLowerCase(status.s) \in paidStatuses
       \/ toUpperCase(status.s) \in paidStatuses

\* What one step of the cascade finds when it runs: a value and its source
\* tag, or threw when an exception leaves the try block of the handler.
Found(value, source) == [threw |-> FALSE, value |-> value, source |-> source]
NotFound == [threw |-> FALSE, value |-> Null, source |-> Null]
StepThrew == [threw |-> TRUE, value |-> Null, source |-> Null]

\* what an extraction gives the step that called it
FoundBy(extracted, source) ==
    IF extracted.threw THEN StepThrew
    ELSE IF Truthy(extracted.value) THEN Found(extracted.value, Str(source))
    ELSE NotFound

\* lines 130-143: the saved utmQuery; the try block catches what the
\* extraction throws
caught(extracted) == IF extracted.threw THEN Returned(Null) ELSE extracted

savedUtmQueryStep(utmFile, key) ==
    IF /\ utmFile.state = "ok"
       /\ Truthy(Lookup(utmFile.data, key))
       /\ Truthy(Get(Lookup(utmFile.data, key), "utmQuery"))
    THEN FoundBy(caught(extractTtclidFromUtmQuery(Get(Lookup(utmFile.data, key), "utmQuery"))),
                 <<117, 116, 109, 95, 113, 117, 101, 114, 105, 101, 115, 95, 106, 115, 111, 110>>)  \* 'utm_queries_json'
    ELSE NotFound

\* the step that takes payload.ttclid and leaves the source tag as it is
payloadDirectStepUntagged(payload) ==
    IF Truthy(Get(payload, "ttclid"))
    THEN Found(Get(payload, "ttclid"), Null)
    ELSE NotFound

\* lines 145-149
payloadDirectStep(payload) ==
    IF Truthy(Get(payload, "ttclid"))
    THEN Found(Get(payload, "ttclid"), Str(<<112, 97, 121, 108, 111, 97, 100, 95, 100, 105, 114, 101, 116, 111>>))  \* 'payload_direto'
    ELSE NotFound

\* lines 151-158
payloadUtmQueryStep(payload) ==
    IF Truthy(Get(payload, "utmQuery"))
    THEN FoundBy(extractTtclidFromUtmQuery(Get(payload, "utmQuery")),
                 <<117, 116, 109, 81, 117, 101, 114, 121>>)  \* 'utmQuery'
    ELSE NotFound

\* lines 160-167
metadataUtmQueryStep(payload) ==
    IF Truthy(Get(payload, "metadata")) /\ Truthy(Get(Get(payload, "metadata"), "utmQuery"))
    THEN FoundBy(extractTtclidFromUtmQuery(Get(Get(payload, "metadata"), "utmQuery")),
                 <<109, 101, 116, 97, 100, 97, 116, 97, 95, 117, 116, 109, 81, 117, 101, 114, 121>>)  \* 'metadata_utmQuery'
    ELSE NotFound

\* lines 169-176
utmStringStep(payload) ==
    IF Truthy(Get(payload, "utm")) /\ Get(payload, "utm").t = "string"
    THEN FoundBy(extractFromQueryString(Get(payload, "utm").s),
                 <<117, 116, 109, 95, 113, 117, 101, 114, 121, 95, 115, 116, 114, 105, 110, 103>>)  \* 'utm_query_string'
    ELSE NotFound

\* lines 178-182 left out: the ttclid of the stored record is not carried forward
existingTransactionStepLeftOut(transactions, key) == NotFound

\* lines 178-182
existingTransactionStep(transactions, key) ==
    IF Truthy(Lookup(transactions, key)) /\ Truthy(Get(Lookup(transactions, key), "ttclid"))
    THEN Found(Get(Lookup(transactions, key), "ttclid"), Str(<<116, 114, 97, 110, 115, 97, 99, 116, 105, 111, 110, 115, 95, 106, 115, 111, 110>>))  \* 'transactions_json'
    ELSE NotFound

\* the steps with the stored record consulted first: a populated ttclid is kept
cascadeStepsStoredFirst(payload, key, transactions, utmFile) ==
    << existingTransactionStep(transactions, key),
       savedUtmQueryStep(utmFile, key),
       payloadDirectStep(payload),
       payloadUtmQueryStep(payload),
       metadataUtmQueryStep(payload),
       utmStringStep(payload) >>

\* lines 126-182: the steps in the order the handler takes them
cascadeSteps(payload, key, transactions, utmFile) ==
    << savedUtmQueryStep(utmFile, key),
       payloadDirectStep(payload),
       payloadUtmQueryStep(payload),
       metadataUtmQueryStep(payload),
       utmStringStep(payload),
       existingTransactionStep(transactions, key) >>

\* The handler's (ttclid, ttclidSource) after the steps from i on, ttclid being
\* null before them: a step runs only while ttclid is null (the !ttclid of
\* lines 146, 152, 161, 170 and 179), and an exception ends the cascade.
Resolution(ttclid, source) == [threw |-> FALSE, ttclid |-> ttclid, ttclidSource |-> source]
ResolutionThrown == [threw |-> TRUE, ttclid |-> Null, ttclidSource |-> Null]

RECURSIVE runCascade(_, _)
runCascade(steps, i) ==
    IF i > Len(steps) THEN Resolution(Null, Null)
    ELSE IF steps[i].threw THEN ResolutionThrown
    ELSE IF Truthy(steps[i].value) THEN Resolution(steps[i].value, steps[i].source)
    ELSE runCascade(steps, i + 1)

resolveTtclid(payload, key, transactions, utmFile) ==
    runCascade(cascadeSteps(payload, key, transactions, utmFile), 1)

\* lines 81-107 and 192-211: the record written for the transaction
transactionRecord(payload, transactionId, r, now) ==
    LET status == IF Truthy(Get(payload, "status"))
                  THEN Str(trim(JsToString(Get(payload, "status")))) ELSE Null
        statusLower == IF Truthy(status) THEN Str(toLowerCase(status.s)) ELSE Str(<<>>)
        valor == Or(Or(Get(payload, "valor"), Get(payload, "amount")), Null)
        items == Get(payload, "items")
        descricao == Or(Or(Get(payload, "descricao"),
                           IF Truthy(items) THEN Get(items, "title") ELSE items), Null)
        customer == Get(payload, "customer")
        cliente == IF Truthy(customer)
                   THEN [nome |-> Get(customer, "name"), email |-> Get(customer, "email"),
                         documento |-> Get(customer, "document"),
                         telefone |-> Get(customer, "phone")]
                   ELSE [nome |-> Get(payload, "cliente_nome"),
                         email |-> Get(payload, "cliente_email"),
                         documento |-> Get(payload, "cliente_documento"),
                         telefone |-> Null]
    IN  Obj([transaction_id |-> transactionId,
             vendor_id |-> Or(Get(payload, "vendor_id"), Null),
             status |-> status,
             status_lower |-> statusLower,
             valor |-> valor,
             amount |-> valor,
             descricao |-> descricao,
             cliente_nome |-> cliente.nome,
             cliente_email |-> cliente.email,
             cliente_documento |-> cliente.documento,
             cliente_telefone |-> cliente.telefone,
             created_at |-> Or(Get(payload, "created_at"), Null),
             updated_at |-> now,
             paid |-> Bool(webhookIsPaid(status)),
             ttclid |-> r.ttclid,
             ttclid_source |-> r.ttclidSource,
             payload |-> payload,
             api_version |->
                 IF Truthy(Or(Get(payload, "_id"), Get(payload, "customer")))
                 THEN Str(<<114, 97, 105, 108, 119, 97, 121>>)  \* 'railway'
                 ELSE Str(<<115, 117, 112, 97, 98, 97, 115, 101>>)])  \* 'supabase'

Response(code, body) == [code |-> code, body |-> body]

\* the write with the amount added to the amount already stored
writeAndRespondAdding(transactions, key, record) ==
    [response |-> Response(200, [success |-> TRUE,
                                 transaction_id |-> Get(record, "transaction_id"),
                                 status |-> Get(record, "status"),
                                 paid |-> Get(record, "paid").b]),
     file |-> OkFile(Assign(transactions, key,
                 IF Get(Lookup(transactions, key), "valor").t = "number"
                    /\ Get(record, "valor").t = "number"
                 THEN Obj([record.f EXCEPT !.valor =
                              Num(@.n + Get(Lookup(transactions, key), "valor").n)])
                 ELSE record))]

\* the write of a file that holds the new record alone
writeAndRespondAlone(transactions, key, record) ==
    [response |-> Response(200, [success |-> TRUE,
                                 transaction_id |-> Get(record, "transaction_id"),
                                 status |-> Get(record, "status"),
                                 paid |-> Get(record, "paid").b]),
     file |-> OkFile(Assign(<<>>, key, record))]

\* the write of { ...transactions[key], ...record } with the null and absent
\* fields of the new record left out: the stored record shows through
writeAndRespondKeeping(transactions, key, record) ==
    [response |-> Response(200, [success |-> TRUE,
                                 transaction_id |-> Get(record, "transaction_id"),
                                 status |-> Get(record, "status"),
                                 paid |-> Get(record, "paid").b]),
     file |-> OkFile(Assign(transactions, key,
                 Obj([n \in DOMAIN record.f |->
                        IF record.f[n] \in {Null, Undef}
                        THEN Get(Lookup(transactions, key), n)
                        ELSE record.f[n]])))]

\* the write that stamps every stored record with the time of the merge
writeAndRespondTouching(transactions, key, record) ==
    [response |-> Response(200, [success |-> TRUE,
                                 transaction_id |-> Get(record, "transaction_id"),
                                 status |-> Get(record, "status"),
                                 paid |-> Get(record, "paid").b]),
     file |-> OkFile([k \in DOMAIN Assign(transactions, key, record) |->
                        Obj([Assign(transactions, key, record)[k].f
                               EXCEPT !["updated_at"] = Get(record, "updated_at")])])]

\* lines 213-226: the file written and the response
writeAndRespond(transactions, key, record) ==
    [response |-> Response(200, [success |-> TRUE,
                                 transaction_id |-> Get(record, "transaction_id"),
                                 status |-> Get(record, "status"),
                                 paid |-> Get(record, "paid").b]),
     file |-> OkFile(Assign(transactions, key, record))]

\* lines 184-232, given what the cascade resolved
mergeResolved(payload, transactionId, transactions, file, r, now) ==
    IF r.threw
    THEN [response |-> Response(500, [error |-> "Internal server error"]), file |-> file]
    ELSE writeAndRespond(transactions, JsToString(transactionId),
                         transactionRecord(payload, transactionId, r, now))

\* lines 126-232, once the transaction id is known and the transactions loaded
webhookMerge(payload, transactionId, transactions, file, utmFile, now) ==
    mergeResolved(payload, transactionId, transactions, file,
                  resolveTtclid(payload, JsToString(transactionId), transactions, utmFile),
                  now)

\* the handler without the check of lines 76-79: a payload without identity
\* is merged under the key String(null)
webhookHandlerUnvalidated(method, payload, file, utmFile, now) ==
    IF method # "POST"
    THEN [response |-> Response(405, [error |-> "Method not allowed"]), file |-> file]
    ELSE webhookMerge(payload, extractTransactionId(payload), loadFile(file), file,
                      utmFile, now)

\* lines 50-233: the response and the transactions file after the request
webhookHandler(method, payload, file, utmFile, now) ==
    IF method # "POST"
    THEN [response |-> Response(405, [error |-> "Method not allowed"]), file |-> file]
    ELSE IF ~Truthy(extractTransactionId(payload))
    THEN [response |-> Response(400, [error |-> "transaction_id, transactionId or _id is required"]),
          file |-> file]
    ELSE webhookMerge(payload, extractTransactionId(payload), loadFile(file), file,
                      utmFile, now)

-----------------------------------------------------------------------------
(* src/api/save-utm-query.js: handler                                       *)

\* lines 13-60: the response and the utm queries file after the request
saveUtmQueryHandler(method, body, file, savedAt) ==
    LET transactionId == Get(body, "transactionId")
        utmQuery == Get(body, "utmQuery")
        queries == loadFile(file)
        entry == Obj([utmQuery |-> utmQuery, savedAt |-> savedAt])
    IN  IF method = "OPTIONS" THEN [response |-> Response(200, [end |-> TRUE]), file |-> file]
        ELSE IF method # "POST"
        THEN [response |-> Response(405, [error |-> "Method not allowed"]), file |-> file]
        ELSE IF ~Truthy(transactionId) \/ ~Truthy(utmQuery)
        THEN [response |-> Response(400, [error |-> "transactionId and utmQuery are required"]),
              file |-> file]
        ELSE [response |-> Response(200, [success |-> TRUE, transactionId |-> transactionId]),
              file |-> OkFile(Assign(queries, JsToString(transactionId), entry))]

-----------------------------------------------------------------------------
(* src/api/verifyPayment.js                                                 *)

\* lines 15-19
isPaidStatus(status) ==
    /\ status # <<>>
    /\ \/ status \in paidStatuses
       \/ toUpperCase(status) \in paidStatuses
       \/ toLowerCase(status) \in paidStatuses

\* lines 40-62: the record built from the parsed body
remoteRecord(transactionId, json, rawStatus, isoNow) ==
    IF ~Truthy(json) \/ rawStatus.t # "string" THEN Null
    ELSE Obj([transaction_id |->
                  IF Truthy(GetJson(GetJson(json, <<95, 105, 100>>), <<36, 111, 105, 100>>))  \* '_id', '$oid'
                  THEN GetJson(GetJson(json, <<95, 105, 100>>), <<36, 111, 105, 100>>)  \* '_id', '$oid'
                  ELSE IF Truthy(GetJson(json, <<116, 114, 97, 110, 115, 97, 99, 116, 105, 111, 110, 73, 100>>))  \* 'transactionId'
                  THEN GetJson(json, <<116, 114, 97, 110, 115, 97, 99, 116, 105, 111, 110, 73, 100>>)  \* 'transactionId'
                  ELSE transactionId,
              status |-> Str(toLowerCase(toUpperCase(rawStatus.s))),
              valor |-> Or(GetJson(json, <<97, 109, 111, 117, 110, 116>>), Null),  \* 'amount'
              amount |-> Or(GetJson(json, <<97, 109, 111, 117, 110, 116>>), Null),  \* 'amount'
              paid |-> Bool(toUpperCase(rawStatus.s) = <<67, 79, 77, 80, 76, 69, 84, 69, 68>>),  \* 'COMPLETED'
              updated_at |-> isoNow])

\* lines 38-68, given what JSON.parse(data) did
remoteParsed(transactionId, parsed, isoNow) ==
    IF parsed.threw THEN Null
    ELSE remoteRecord(transactionId, parsed.value,
                      Or(GetJson(parsed.value, <<115, 116, 97, 116, 117, 115>>),  \* 'status'
                         Str(<<80, 69, 78, 68, 73, 78, 71>>)),  \* 'PENDING'
                      isoNow)

\* encodeURIComponent throws a URIError on a string with a lone surrogate: a
\* low surrogate that follows no high surrogate, or a high surrogate that no
\* low surrogate follows
encodeURIComponentThrows(s) ==
    \E i \in 1..Len(s) :
        \/ /\ s[i] >= 56320 /\ s[i] <= 57343
           /\ (i = 1 \/ s[i - 1] < 55296 \/ s[i - 1] > 56319)
        \/ /\ s[i] >= 55296 /\ s[i] <= 56319
           /\ (i = Len(s) \/ s[i + 1] < 56320 \/ s[i + 1] > 57343)

\* the promise of an async function whose body threw
Rejected == [t |-> "rejected"]

\* the query with a parse of the body that nothing catches (no try at line 39)
checkPaymentViaAPIUncaught(transactionId, remote, isoNow) ==
    IF ~Truthy(transactionId) THEN Null
    ELSE IF encodeURIComponentThrows(JsToString(transactionId)) THEN Rejected
    ELSE IF remote.kind # "response" \/ remote.statusCode # 200 THEN Null
    ELSE IF JSONparse(Str(remote.data)).threw THEN Rejected
    ELSE remoteParsed(transactionId, JSONparse(Str(remote.data)), isoNow)

\* lines 21-81: what the promise resolves to, or Rejected, given how the
\* request to the payment API ended: an "error", a "timeout", or a "response"
\* with a status code and a body.  The URL is built (line 24) before the
\* promise of line 26 exists.
checkPaymentViaAPI(transactionId, remote, isoNow) ==
    IF ~Truthy(transactionId) THEN Null
    ELSE IF encodeURIComponentThrows(JsToString(transactionId)) THEN Rejected
    ELSE IF remote.kind # "response" \/ remote.statusCode # 200 THEN Null
    ELSE remoteParsed(transactionId, JSONparse(Str(remote.data)), isoNow)

\* a == b for the values the search compares: values of one type, or a string
\* and a number (the number's decimal form against the string)
LooseEq(a, b) ==
    IF a.t = b.t THEN a = b
    ELSE IF {a.t, b.t} = {"string", "number"} THEN JsToString(a) = JsToString(b)
    ELSE {a.t, b.t} = {"undefined", "null"}

\* lines 116-123: for ... in visits the keys in the order they were first
\* written in and the first match wins.  The map does not keep that order: the
\* result is a set, with more than one record where the order would decide.
searchValues(transactions, searchKey) ==
    { transactions[k] : k \in
        {x \in DOMAIN transactions :
            \/ LooseEq(Get(transactions[x], "transaction_id"), searchKey)
            \/ LooseEq(Get(transactions[x], "payment_id"), searchKey)} }

\* lines 103-128: the records the lookup can end with (Null: none found); a
\* file that is missing or cannot be parsed is not looked into
findLocal(file, searchKey) ==
    LET transactions == loadFile(file)
        direct == Lookup(transactions, JsToString(searchKey))
    IN  IF file.state # "ok" THEN {Null}
        ELSE IF Truthy(direct) THEN {direct}
        ELSE IF searchValues(transactions, searchKey) = {} THEN {Null}
        ELSE searchValues(transactions, searchKey)

\* lines 149-154: statusMap[status].  statusMap is an object literal, so the
\* lookup also finds what it inherits from Object.prototype
statusMap(status) ==
    CASE status \in { <<112, 101, 110, 100, 101, 110, 116, 101>>,  \* 'pendente'
                      <<119, 97, 105, 116, 105, 110, 103, 95, 112, 97, 121, 109, 101, 110, 116>> }  \* 'waiting_payment'
           -> Str(<<112, 101, 110, 100, 105, 110, 103>>)  \* 'pending'
      [] status = <<99, 97, 110, 99, 101, 108, 101, 100>>  \* 'canceled'
           -> Str(<<99, 97, 110, 99, 101, 108, 101, 100>>)  \* 'canceled'
      [] status = <<114, 101, 102, 117, 110, 100, 101, 100>>  \* 'refunded'
           -> Str(<<114, 101, 102, 117, 110, 100, 101, 100>>)  \* 'refunded'
      [] OTHER -> inherited(status)

\* the mapping by the status map alone, whatever the paid flag
mappedStatusTableOnly(status, isPaid) ==
    Or(statusMap(status), Str(status))

\* the mapping without the status map
mappedStatusUnmapped(status, isPaid) ==
    IF isPaid THEN Str(<<112, 97, 105, 100>>)  \* 'paid'
    ELSE Str(status)

\* lines 145-157, status being the lowercased status
mappedStatus(status, isPaid) ==
    IF isPaid THEN Str(<<112, 97, 105, 100>>)  \* 'paid'
    ELSE Or(statusMap(status), Str(status))

\* what JSON.stringify, applied by res.json, leaves of a property value: a
\* property holding a function is left out
sent(v) == IF v.t = "function" THEN Undef ELSE v

\* lines 159-172
foundResponse(transaction, status, isPaid) ==
    Response(200, [success |-> TRUE, status |-> sent(status), paid |-> isPaid,
                   transaction |->
                       [id |-> Or(Get(transaction, "transaction_id"), Null),
                        transaction_id |-> Or(Get(transaction, "transaction_id"), Null),
                        payment_id |-> Or(Get(transaction, "payment_id"), Null),
                        status |-> sent(status),
                        valor |-> Or(Or(Get(transaction, "valor"), Get(transaction, "amount")), Null),
                        amount |-> Or(Or(Get(transaction, "valor"), Get(transaction, "amount")), Null),
                        updated_at |-> Or(Get(transaction, "updated_at"), Null)]])

\* the paid flag taken from the status by the rule of the payment API (line
\* 46), whatever the record's own flag
pollIsPaidCompletedOnly(transaction, status) ==
    status = <<99, 111, 109, 112, 108, 101, 116, 101, 100>>  \* 'completed'

\* lines 137-143
pollIsPaid(transaction, status) ==
    IF Get(transaction, "paid") # Undef THEN Truthy(Get(transaction, "paid"))
    ELSE isPaidStatus(status)

\* lines 136-172, status being the lowercased status
pollMapped(transaction, status) ==
    foundResponse(transaction, mappedStatus(status, pollIsPaid(transaction, status)),
                  pollIsPaid(transaction, status))

\* lines 135-172; toLowerCase of a status that is not a string throws
pollFound(transaction) ==
    IF Or(Get(transaction, "status"), Str(<<>>)).t # "string"
    THEN Response(500, [error |-> "Internal server error"])
    ELSE pollMapped(transaction,
                    toLowerCase(Or(Get(transaction, "status"),
                                   Str(<<112, 101, 110, 100, 105, 110, 103>>)).s))  \* 'pending'

\* the answer with an error status for a transaction that was not found
pollRespondNotFound(transaction, queried) ==
    IF Truthy(transaction)
    THEN [response |-> pollFound(transaction), queried |-> queried,
          transaction |-> transaction]
    ELSE [response |-> Response(404, [error |-> "Transaction not found"]),
          queried |-> queried, transaction |-> transaction]

\* lines 130-182, given the transaction found in the file or by the payment API
pollRespond(transaction, queried) ==
    IF Truthy(transaction)
    THEN [response |-> pollFound(transaction), queried |-> queried,
          transaction |-> transaction]
    ELSE [response |-> Response(200, [success |-> TRUE,
                                      status |-> Str(<<112, 101, 110, 100, 105, 110, 103>>),  \* 'pending'
                                      paid |-> FALSE,
                                      message |-> "Transaction not found or still pending"]),
          queried |-> queried, transaction |-> transaction]

\* lines 130-188, given what the await of line 132 gave: a rejection is caught
\* at line 184
pollSettled(transaction) ==
    IF transaction = Rejected
    THEN [response |-> Response(500, [error |-> "Internal server error"]),
          queried |-> TRUE, transaction |-> transaction]
    ELSE pollRespond(transaction, TRUE)

\* lines 83-188: the response, whether the payment API was queried, and the
\* transaction the response was made from, found being what the lookup in the
\* file ended with
verifyPaymentHandler(method, body, found, remote, isoNow) ==
    IF method = "OPTIONS"
    THEN [response |-> Response(200, [end |-> TRUE]), queried |-> FALSE, transaction |-> Null]
    ELSE IF method # "POST"
    THEN [response |-> Response(405, [error |-> "Method not allowed"]), queried |-> FALSE,
          transaction |-> Null]
    ELSE IF ~Truthy(Get(body, "id")) /\ ~Truthy(Get(body, "payment_id"))
    THEN [response |-> Response(400, [error |-> "Transaction ID or Payment ID required"]),
          queried |-> FALSE, transaction |-> Null]
    ELSE IF Truthy(found) THEN pollRespond(found, FALSE)
    ELSE pollSettled(checkPaymentViaAPI(Or(Get(body, "id"), Get(body, "payment_id")),
                                        remote, isoNow))

-----------------------------------------------------------------------------
(* Requests.  The bodies stand for what the three endpoints receive: JSON   *)
(* objects of the two vendor schemas, capture bodies, poll bodies.          *)

\* an object holding the properties of fields that are not undefined
ObjOf(fields) ==
    Obj([n \in {m \in DOMAIN fields : fields[m] # Undef} |-> fields[n]])

Tx1 == Str(<<116, 120, 49>>)  \* 'tx1'
Tx2 == Str(<<116, 120, 50>>)  \* 'tx2'

\* values of new Date().toLocaleString(...): two instants
Times == {Str(<<116, 49>>), Str(<<116, 50>>)}  \* 't1', 't2'

StatusPago == Str(<<112, 97, 103, 111>>)  \* 'pago'

\* a webhook payload for Tx1 with the attribution sources 2 to 5
Attribution(d, q, m, u) ==
    ObjOf([transaction_id |-> Tx1, status |-> StatusPago,
           ttclid |-> d, utmQuery |-> q, metadata |-> m, utm |-> u])

\* each of the sources 2 to 5 present or absent
AttributionPayloads ==
    { Attribution(d, q, m, u) :
        d \in {Undef, DirectTtclid}, q \in {Undef, QueryGood},
        m \in {Undef, Obj([utmQuery |-> MetaGood])}, u \in {Undef, UtmGood} }

\* sources whose value cannot be decoded, is JSON, is falsy or is unusable
SpecialAttributionPayloads ==
    { Attribution(Undef, QueryMalformed, Undef, UtmGood),
      Attribution(Undef, Undef, Obj([utmQuery |-> QueryMalformed]), UtmGood),
      Attribution(Undef, Undef, Undef, UtmMalformed),
      Attribution(DirectTtclid, QueryMalformed, Undef, Undef),
      Attribution(Undef, QueryJson, Undef, Undef),
      Attribution(Undef, Undef, Undef, UtmOtherName),
      Attribution(Str(<<>>), QueryNoMatch, Obj(<<>>), QueryObject),
      Attribution(Null, QueryObject, Undef, Undef) }

\* payloads of the two schemas that differ in the record fields
FieldPayloads ==
    { ObjOf([transaction_id |-> Tx2, status |-> Str(<<80, 97, 103, 111>>),  \* 'Pago'
             valor |-> Num(100), vendor_id |-> Str(<<118, 49>>),  \* 'v1'
             descricao |-> Str(<<112, 105, 120>>),  \* 'pix'
             cliente_nome |-> Str(<<65, 110, 97>>),  \* 'Ana'
             cliente_email |-> Str(<<97, 64, 98, 46, 99>>),  \* 'a@b.c'
             cliente_documento |-> Str(<<49, 50, 51>>),  \* '123'
             created_at |-> Str(<<50, 48, 50, 52, 45, 48, 49, 45, 48, 49>>)]),  \* '2024-01-01'
      ObjOf([transaction_id |-> Tx2, status |-> Str(<<112, 101, 110, 100, 101, 110, 116, 101>>)]),  \* 'pendente'
      ObjOf(("_id" :> Obj(("$oid" :> Tx2))) @@
            [status |-> Str(<<67, 79, 77, 80, 76, 69, 84, 69, 68>>),  \* 'COMPLETED'
             amount |-> Num(200),
             customer |-> Obj([name |-> Str(<<66, 105, 97>>),  \* 'Bia'
                               email |-> Str(<<98, 64, 98, 46, 99>>),  \* 'b@b.c'
                               document |-> Str(<<52, 53, 54>>),  \* '456'
                               phone |-> Str(<<57, 57, 57>>)]),  \* '999'
             items |-> Obj([title |-> Str(<<112, 108, 97, 110, 111>>)])]),  \* 'plano'
      ObjOf([transaction_id |-> Tx1, status |-> Str(<<32, 80, 69, 78, 68, 73, 78, 71, 32>>),  \* ' PENDING '
             amount |-> Num(50)]) }

\* payloads that differ in the fields the transaction id is taken from
IdentityPayloads ==
    { ObjOf([status |-> Str(<<112, 97, 105, 100>>)]),  \* 'paid'
      ObjOf([transaction_id |-> Str(<<>>), transactionId |-> Null, status |-> Str(<<112, 97, 105, 100>>)]),  \* 'paid'
      ObjOf(("_id" :> Obj(<<>>)) @@ [ttclid |-> DirectTtclid]),
      ObjOf(("_id" :> Tx2) @@ [status |-> Str(<<112, 97, 105, 100>>)]),  \* 'paid'
      ObjOf(("_id" :> Obj(("$oid" :> Tx2))) @@
            [transaction_id |-> Tx1, transactionId |-> Tx2]),
      ObjOf(("_id" :> Tx1) @@ [transactionId |-> Tx2]) }

WebhookPayloads ==
    FieldPayloads \cup IdentityPayloads
        \cup { Attribution(DirectTtclid, Undef, Undef, Undef),
               Attribution(Undef, Undef, Undef, Undef),
               Attribution(Undef, QueryMalformed, Undef, UtmGood) }

\* capture bodies that save a blob for Tx1
SavedBlobBodies ==
    { ObjOf([transactionId |-> Tx1, utmQuery |-> q]) :
        q \in {SavedGood, SavedJson, QueryMalformed, QueryObject} }

\* capture bodies: a blob for Tx1, and bodies that lack a required field
CaptureBodies ==
    { ObjOf([transactionId |-> Tx1, utmQuery |-> SavedGood]),
      ObjOf([transactionId |-> Tx1, utmQuery |-> Undef]),
      ObjOf([transactionId |-> Undef, utmQuery |-> SavedGood]) }

\* poll bodies
PollBodies ==
    { Obj([id |-> Tx1]), Obj([payment_id |-> Tx2]), Obj(<<>>),
      Obj([id |-> Str(<<55296>>)]) }  \* '\uD800'

\* how the request to the payment API ends
RemoteOutcomes ==
    { [kind |-> "timeout", statusCode |-> 0, data |-> <<>>],
      [kind |-> "response", statusCode |-> 200,
       data |-> <<123, 34, 115, 116, 97, 116, 117, 115, 34, 58, 34, 99, 111, 109, 112, 108, 101, 116, 101, 100, 34, 44, 34, 97, 109, 111, 117, 110, 116, 34, 58, 49, 48, 48, 125>>],  \* '{"status":"completed","amount":100}'
      [kind |-> "response", statusCode |-> 200,
       data |-> <<66, 97, 100, 32, 71, 97, 116, 101, 119, 97, 121>>] }  \* 'Bad Gateway'

-----------------------------------------------------------------------------
(* Requests handled one at a time: each action is one whole handler.  last  *)
(* records the request handled last: its body, its response, whether the    *)
(* request before it was the same one, the ttclid_source the record of its  *)
(* transaction had before it, and for a poll the transaction it answered    *)
(* from.                                                                    *)

NoRequest ==
    [op |-> "none", method |-> "none", body |-> Undef, response |-> Response(0, <<>>),
     repeated |-> FALSE, priorSource |-> Undef, queried |-> FALSE, transaction |-> Null]

Handled(op, method, body, response, priorSource, queried) ==
    [op |-> op, method |-> method, body |-> body, response |-> response,
     repeated |-> last.op = op /\ last.method = method /\ last.body = body,
     priorSource |-> priorSource, queried |-> queried, transaction |-> Null]

\* the stored record of the transaction a payload names
RecordOf(file, payload) ==
    Lookup(loadFile(file), JsToString(extractTransactionId(payload)))

Init ==
    /\ transactionsFile \in {MissingFile, CorruptFile}
    /\ utmQueriesFile \in {MissingFile, CorruptFile}
    /\ last = NoRequest
    /\ pc = <<>>
    /\ local = <<>>

Webhook(method, payload, now) ==
    \E out \in {webhookHandler(method, payload, transactionsFile, utmQueriesFile, now)} :
        /\ transactionsFile' = out.file
        /\ last' = Handled("webhook", method, payload, out.response,
                           Get(RecordOf(transactionsFile, payload), "ttclid_source"), FALSE)
        /\ UNCHANGED <<utmQueriesFile, pc, local>>

SaveUtmQuery(method, body, savedAt) ==
    \E out \in {saveUtmQueryHandler(method, body, utmQueriesFile, savedAt)} :
        /\ utmQueriesFile' = out.file
        /\ last' = Handled("save-utm-query", method, body, out.response, Undef, FALSE)
        /\ UNCHANGED <<transactionsFile, pc, local>>

\* the poll that writes a record obtained from the payment API into the
\* transactions file
VerifyPaymentPersisting(method, body, remote, isoNow) ==
    \E found \in findLocal(transactionsFile, Or(Get(body, "id"), Get(body, "payment_id"))) :
        \E out \in {verifyPaymentHandler(method, body, found, remote, isoNow)} :
            /\ last' = [Handled("verifyPayment", method, body, out.response, Undef, out.queried)
                           EXCEPT !.transaction = out.transaction]
            /\ transactionsFile' =
                  IF out.queried /\ out.transaction.t = "object"
                  THEN OkFile(Assign(loadFile(transactionsFile),
                                     JsToString(Or(Get(body, "id"), Get(body, "payment_id"))),
                                     out.transaction))
                  ELSE transactionsFile
            /\ UNCHANGED <<utmQueriesFile, pc, local>>

VerifyPayment(method, body, remote, isoNow) ==
    \E found \in findLocal(transactionsFile, Or(Get(body, "id"), Get(body, "payment_id"))) :
        \E out \in {verifyPaymentHandler(method, body, found, remote, isoNow)} :
            /\ last' = [Handled("verifyPayment", method, body, out.response, Undef, out.queried)
                           EXCEPT !.transaction = out.transaction]
            /\ UNCHANGED <<transactionsFile, utmQueriesFile, pc, local>>

\* a request of another method carries one fixed body
SomePayload == ObjOf([transaction_id |-> Tx1, status |-> StatusPago])
SomeCapture == ObjOf([transactionId |-> Tx1, utmQuery |-> SavedGood])
SomeTime == CHOOSE t \in Times : TRUE

\* every request of the three endpoints
Next ==
    \/ \E payload \in WebhookPayloads, now \in Times : Webhook("POST", payload, now)
    \/ Webhook("GET", SomePayload, SomeTime)
    \/ \E body \in CaptureBodies, savedAt \in Times : SaveUtmQuery("POST", body, savedAt)
    \/ \E method \in {"OPTIONS", "GET"} : SaveUtmQuery(method, SomeCapture, SomeTime)
    \/ \E body \in PollBodies, remote \in RemoteOutcomes :
          VerifyPayment("POST", body, remote, SomeTime)
    \/ \E method \in {"OPTIONS", "GET"} :
          VerifyPayment(method, Obj([id |-> Tx1]), CHOOSE r \in RemoteOutcomes : TRUE, SomeTime)

Spec == Init /\ [][Next]_vars

\* the webhook and capture requests of one transaction at one instant, with
\* every combination of its attribution sources
NextAttribution ==
    \/ \E payload \in AttributionPayloads \cup SpecialAttributionPayloads :
          Webhook("POST", payload, SomeTime)
    \/ \E body \in SavedBlobBodies : SaveUtmQuery("POST", body, SomeTime)

SpecAttribution == Init /\ [][NextAttribution]_vars

-----------------------------------------------------------------------------
(* What the claims say of single requests.  A step of the state machine is  *)
(* one request; last' is that request, the unprimed files are the files it  *)
(* found and the primed files the files it left.                            *)

\* the step is a POST to the webhook
webhookPosted == last'.op = "webhook" /\ last'.method = "POST"

\* the step is a POST to the webhook that wrote the record and answered 200
webhookMerged == webhookPosted /\ last'.response.code = 200

\* the ttclid and ttclid_source of the record stored for the payload's transaction
storedPair(file, payload) ==
    <<Get(RecordOf(file, payload), "ttclid"), Get(RecordOf(file, payload), "ttclid_source")>>

\* the value a query source offers: the ttclid extracted from it, nothing when
\* no ttclid can be extracted from it
offered(extracted) ==
    IF ~extracted.threw /\ Truthy(extracted.value) THEN extracted.value ELSE Null

\* the six sources in the order 1 to 6 of the cascade, each with the tag the
\* handler gives it, for a payload, the utm queries file and the record stored
\* before the request
sourcesInOrder(payload, utmFile, prior) ==
    << [tag |-> Str(<<117, 116, 109, 95, 113, 117, 101, 114, 105, 101, 115, 95, 106, 115, 111, 110>>),  \* 'utm_queries_json'
        value |-> offered(extractTtclidFromUtmQuery(Get(RecordOf(utmFile, payload), "utmQuery")))],
       [tag |-> Str(<<112, 97, 121, 108, 111, 97, 100, 95, 100, 105, 114, 101, 116, 111>>),  \* 'payload_direto'
        value |-> Get(payload, "ttclid")],
       [tag |-> Str(<<117, 116, 109, 81, 117, 101, 114, 121>>),  \* 'utmQuery'
        value |-> offered(extractTtclidFromUtmQuery(Get(payload, "utmQuery")))],
       [tag |-> Str(<<109, 101, 116, 97, 100, 97, 116, 97, 95, 117, 116, 109, 81, 117, 101, 114, 121>>),  \* 'metadata_utmQuery'
        value |-> offered(extractTtclidFromUtmQuery(Get(Get(payload, "metadata"), "utmQuery")))],
       [tag |-> Str(<<117, 116, 109, 95, 113, 117, 101, 114, 121, 95, 115, 116, 114, 105, 110, 103>>),  \* 'utm_query_string'
        value |-> IF Get(payload, "utm").t = "string"
                  THEN offered(extractFromQueryString(Get(payload, "utm").s))
                  ELSE Null],
       [tag |-> Str(<<116, 114, 97, 110, 115, 97, 99, 116, 105, 111, 110, 115, 95, 106, 115, 111, 110>>),  \* 'transactions_json'
        value |-> Get(prior, "ttclid")] >>

\* the value and tag of the first source that offers a non-empty value
firstNonEmpty(sources) ==
    LET hits == {i \in 1..Len(sources) : Truthy(sources[i].value)}
    IN  IF hits = {} THEN <<Null, Null>>
        ELSE <<sources[MinOf(hits)].value, sources[MinOf(hits)].tag>>

\* C1 as stated: every POST to the webhook with an extractable transaction id
\* completes, and the ttclid and ttclid_source it stores are the value and tag
\* of the first of the six sources, in the order 1 to 6, that offers a
\* non-empty value, (null, null) when none does.
C1_CascadeOrderEveryPayload ==
    [][webhookPosted /\ Truthy(extractTransactionId(last'.body))
         => /\ last'.response.code = 200
            /\ storedPair(transactionsFile', last'.body)
                 = firstNonEmpty(sourcesInOrder(last'.body, utmQueriesFile,
                                                RecordOf(transactionsFile, last'.body)))]_vars

\* C1 for the merges that complete: the ttclid and ttclid_source stored are
\* the value and tag of the first of the six sources, in the order 1 to 6,
\* that offers a non-empty value, (null, null) when none does.
C1_CascadeOrderOfMerges ==
    [][webhookMerged
         => storedPair(transactionsFile', last'.body)
              = firstNonEmpty(sourcesInOrder(last'.body, utmQueriesFile,
                                             RecordOf(transactionsFile, last'.body)))]_vars

\* sources 2 and 4 populated, no stored blob: source 2's value and tag are stored
C1_Witness ==
    /\ last.op = "webhook" /\ last.response.code = 200
    /\ last.body = Attribution(DirectTtclid, Undef, Obj([utmQuery |-> MetaGood]), Undef)
    /\ utmQueriesFile.state # "ok"
    /\ storedPair(transactionsFile, last.body)
         = <<DirectTtclid, Str(<<112, 97, 121, 108, 111, 97, 100, 95, 100, 105, 114, 101, 116, 111>>)>>  \* 'payload_direto'

\* the positions of s at which a parameter named ttclid begins: 'ttclid=' at
\* the start of s or right after an '&'
namedAt(s) ==
    {i \in 1..Len(s) : (i = 1 \/ s[i - 1] = 38) /\ HasAt(s, i, <<116, 116, 99, 108, 105, 100, 61>>)}  \* 'ttclid='

\* the text of the first parameter named ttclid: from its '=' to the next '&'
\* or the end of s
namedValue(s) ==
    LET from == MinOf(namedAt(s)) + 7
        stops == {j \in from..Len(s) : s[j] = 38}
    IN  SubSeq(s, from, IF stops = {} THEN Len(s) ELSE MinOf(stops) - 1)

\* the sources 1 to 5 (the stored blob and the four payload sources) that offer
\* a non-empty value
offering(payload, utmFile) ==
    {i \in 1..5 : Truthy(sourcesInOrder(payload, utmFile, Undef)[i].value)}

\* the ttclid of the record stored for the payload's transaction
storedTtclid(file, payload) == Get(RecordOf(file, payload), "ttclid")

\* C2 with the ttclid of a source being what the handler extracts from it: when
\* the stored record of the transaction has a non-empty ttclid, a merge that
\* completes, for which none of payload.ttclid, payload.utmQuery,
\* payload.metadata.utmQuery, payload.utm and the stored blob offers a ttclid,
\* leaves the record with the same ttclid.
C2_StickyTtclid ==
    [][(/\ webhookMerged
        /\ Truthy(storedTtclid(transactionsFile, last'.body))
        /\ offering(last'.body, utmQueriesFile) = {})
         => storedTtclid(transactionsFile', last'.body)
              = storedTtclid(transactionsFile, last'.body)]_vars

\* a merge that offered nothing was answered 200 and the record keeps the
\* ttclid it had, now tagged as carried forward from the record
C2_Witness ==
    /\ last.op = "webhook" /\ last.response.code = 200
    /\ offering(last.body, utmQueriesFile) = {}
    /\ Truthy(last.priorSource)
    /\ Truthy(storedTtclid(transactionsFile, last.body))
    /\ storedPair(transactionsFile, last.body)[2]
         = Str(<<116, 114, 97, 110, 115, 97, 99, 116, 105, 111, 110, 115, 95, 106, 115, 111, 110>>)  \* 'transactions_json'

\* a value names a ttclid when it is a string that is a JSON object with a
\* non-empty ttclid member or a query string with a non-empty parameter named
\* ttclid; of a value that is not a string nothing is said: it counts as naming
\* one
namesTtclid(v) ==
    IF v.t \in {"undefined", "null"} THEN FALSE
    ELSE IF v.t # "string" THEN TRUE
    ELSE \/ /\ ~JSONparse(v).threw
            /\ Truthy(GetJson(JSONparse(v).value, <<116, 116, 99, 108, 105, 100>>))  \* 'ttclid'
         \/ namedAt(v.s) # {} /\ namedValue(v.s) # <<>>

\* C2 as stated: when the stored record has a non-empty ttclid, a merge that
\* completes, whose payload has no ttclid in payload.ttclid and names none in
\* payload.utmQuery, payload.metadata.utmQuery and payload.utm, and for which
\* the stored blob names none, leaves the record with the same ttclid.
C2_StickyWhenNoTtclidNamed ==
    [][(/\ webhookMerged
        /\ Truthy(storedTtclid(transactionsFile, last'.body))
        /\ ~Truthy(Get(last'.body, "ttclid"))
        /\ ~namesTtclid(Get(last'.body, "utmQuery"))
        /\ ~namesTtclid(Get(Get(last'.body, "metadata"), "utmQuery"))
        /\ ~namesTtclid(Get(last'.body, "utm"))
        /\ ~namesTtclid(Get(RecordOf(utmQueriesFile, last'.body), "utmQuery")))
         => storedTtclid(transactionsFile', last'.body)
              = storedTtclid(transactionsFile, last'.body)]_vars

\* the priority 1 to 6 of the source a tag names
priorityOf(tag) ==
    CHOOSE i \in 1..6 : sourcesInOrder(Undef, MissingFile, Undef)[i].tag = tag

-----------------------------------------------------------------------------
(* The extraction applied to query strings: calls of                        *)
(* extractTtclidFromUtmQuery (lines 31-48) and of the match of payload.utm  *)
(* (lines 169-176) on strings put together from what precedes the text      *)
(* 'ttclid=', the value that follows it, and what follows the value.        *)

\* what precedes 'ttclid=': nothing, another parameter, or more of a longer name
QueryPrefixes ==
    { <<>>,  \* ''
      <<120, 61, 49, 38>>,  \* 'x=1&'
      <<110, 111, 116>>,  \* 'not'
      <<97, 61, 98, 38, 109, 121, 95>> }  \* 'a=b&my_'

\* the value: plain, percent-encoded, malformed or empty
QueryValues ==
    { <<97, 98, 99>>,  \* 'abc'
      <<97, 98, 99, 37, 50, 48, 100, 101, 102>>,  \* 'abc%20def'
      <<97, 37, 50, 70, 98>>,  \* 'a%2Fb'
      <<37, 67, 51, 37, 65, 57>>,  \* '%C3%A9'
      <<37, 69, 48, 37, 65, 52, 37, 65>>,  \* '%E0%A4%A'
      <<37>>,  \* '%'
      <<>>,  \* ''
      <<120>> }  \* 'x'

\* what follows the value
QuerySuffixes ==
    { <<>>,  \* ''
      <<38, 120, 61, 49>> }  \* '&x=1'

QueryStrings ==
    { Str(p \o <<116, 116, 99, 108, 105, 100, 61>> \o v \o s) :  \* 'ttclid='
        p \in QueryPrefixes, v \in QueryValues, s \in QuerySuffixes }
        \cup {QueryNoMatch, QueryJson, Str(<<>>)}

\* a call of extractTtclidFromUtmQuery
Extract(utmQuery) ==
    /\ last' = Handled("extractTtclidFromUtmQuery", "call", utmQuery,
                       extractTtclidFromUtmQuery(utmQuery), Undef, FALSE)
    /\ UNCHANGED <<transactionsFile, utmQueriesFile, pc, local>>

\* the match of step 5 on a string payload.utm
MatchUtm(utm) ==
    /\ last' = Handled("utmString", "call", utm, extractFromQueryString(utm.s), Undef, FALSE)
    /\ UNCHANGED <<transactionsFile, utmQueriesFile, pc, local>>

NextExtract ==
    \/ \E utmQuery \in QueryStrings : Extract(utmQuery)
    \/ \E utm \in QueryStrings : MatchUtm(utm)

SpecExtract == Init /\ [][NextExtract]_vars

\* C4 as stated: on a non-JSON string the extraction returns no match (null)
\* when the string has no parameter named ttclid, and the percent-decoded
\* value of that parameter when it has one; nothing is said here of a value
\* that is empty or cannot be decoded.
C4_ExtractsParameterNamedTtclid ==
    last.op \in {"extractTtclidFromUtmQuery", "utmString"} /\ JSONparse(last.body).threw
      => IF namedAt(last.body.s) = {} \/ namedValue(last.body.s) = <<>>
         THEN last.response = Returned(Null)
         ELSE \/ decodeURIComponent(namedValue(last.body.s)).threw
              \/ last.response = Returned(Str(decodeURIComponent(namedValue(last.body.s)).value))

\* the first example of the claim: 'ttclid=abc%20def&x=1' gives 'abc def'
C4_Witness ==
    /\ last.op = "extractTtclidFromUtmQuery"
    /\ last.body = UtmGood
    /\ last.response = Returned(Str(<<97, 98, 99, 32, 100, 101, 102>>))  \* 'abc def'

-----------------------------------------------------------------------------
(* Malformed percent-encoding in the sources of the cascade.                *)

\* what the extraction does on the query source i (1 the stored blob, 3
\* payload.utmQuery, 4 payload.metadata.utmQuery, 5 payload.utm)
extractionOf(i, payload, utmFile) ==
    CASE i = 1 -> extractTtclidFromUtmQuery(Get(RecordOf(utmFile, payload), "utmQuery"))
      [] i = 3 -> extractTtclidFromUtmQuery(Get(payload, "utmQuery"))
      [] i = 4 -> extractTtclidFromUtmQuery(Get(Get(payload, "metadata"), "utmQuery"))
      [] i = 5 -> IF Get(payload, "utm").t = "string"
                  THEN extractFromQueryString(Get(payload, "utm").s)
                  ELSE Returned(Null)

\* the query sources whose captured ttclid value cannot be percent-decoded
undecodable(payload, utmFile) ==
    {i \in {1, 3, 4, 5} : extractionOf(i, payload, utmFile).threw}

\* C5 as stated: when the captured ttclid value of a query source cannot be
\* percent-decoded, the source counts as offering nothing, the cascade goes on
\* with the sources after it, and the merge completes and writes the record.
C5_MalformedEncodingIsLocal ==
    [][webhookPosted /\ undecodable(last'.body, utmQueriesFile) # {}
         => /\ last'.response.code = 200
            /\ RecordOf(transactionsFile', last'.body) # Undef
            /\ Get(RecordOf(transactionsFile', last'.body), "payload") = last'.body
            /\ storedPair(transactionsFile', last'.body)
                 = firstNonEmpty(sourcesInOrder(last'.body, utmQueriesFile,
                                                RecordOf(transactionsFile, last'.body)))]_vars

\* C5 for the stored blob alone: when only the stored blob cannot be decoded,
\* the merge completes and stores what the first of the other sources offers.
C5_MalformedStoredBlobIsLocal ==
    [][webhookPosted /\ undecodable(last'.body, utmQueriesFile) = {1}
         => /\ last'.response.code = 200
            /\ Get(RecordOf(transactionsFile', last'.body), "payload") = last'.body
            /\ storedPair(transactionsFile', last'.body)
                 = firstNonEmpty(sourcesInOrder(last'.body, utmQueriesFile,
                                                RecordOf(transactionsFile, last'.body)))]_vars

\* a merge over a stored blob that cannot be decoded has stored the value of
\* payload.utm
C5_Witness ==
    /\ last.op = "webhook" /\ last.response.code = 200
    /\ undecodable(last.body, utmQueriesFile) = {1}
    /\ last.body = Attribution(Undef, Undef, Undef, UtmGood)
    /\ storedPair(transactionsFile, last.body)
         = <<Str(<<97, 98, 99, 32, 100, 101, 102>>),  \* 'abc def'
             Str(<<117, 116, 109, 95, 113, 117, 101, 114, 121, 95, 115, 116, 114, 105, 110, 103>>)>>  \* 'utm_query_string'

-----------------------------------------------------------------------------
(* Validation, idempotence and the life of records.                        *)

\* none of transaction_id, transactionId, _id.$oid and a string _id gives a
\* non-empty id
noIdentity(payload) ==
    /\ ~Truthy(Get(payload, "transaction_id"))
    /\ ~Truthy(Get(payload, "transactionId"))
    /\ ~Truthy(Get(Get(payload, "_id"), "$oid"))
    /\ ~(Get(payload, "_id").t = "string" /\ Truthy(Get(payload, "_id")))

\* C6: a POST to the webhook whose payload gives no transaction id is answered
\* 400 and leaves the transactions file exactly as it was.
C6_MissingIdentityRejected ==
    [][webhookPosted /\ noIdentity(last'.body)
         => last'.response.code = 400 /\ transactionsFile' = transactionsFile]_vars

\* {status: 'paid'} was answered 400 while the store holds records
C6_Witness ==
    /\ last.op = "webhook" /\ last.method = "POST"
    /\ last.body = Obj([status |-> Str(<<112, 97, 105, 100>>)])  \* 'paid'
    /\ last.response.code = 400
    /\ transactionsFile.state = "ok"
    /\ DOMAIN transactionsFile.data # {}

\* a stored record without its updated_at; Undef when there is no record
exceptUpdatedAt(record) ==
    IF record.t = "object"
    THEN [n \in DOMAIN record.f \ {"updated_at"} |-> record.f[n]]
    ELSE record

\* C7: when a POST to the webhook repeats the request handled just before it
\* (same payload, with a transaction id), the record stored after it equals the
\* record stored after the first delivery in every field except updated_at.
C7_MergeIdempotent ==
    [][webhookPosted /\ last'.repeated /\ ~noIdentity(last'.body)
         => exceptUpdatedAt(RecordOf(transactionsFile', last'.body))
              = exceptUpdatedAt(RecordOf(transactionsFile, last'.body))]_vars

\* the same payload has been merged twice in succession, its ttclid taken from
\* the payload both times
C7_Witness ==
    /\ last.op = "webhook" /\ last.response.code = 200 /\ last.repeated
    /\ last.priorSource = Str(<<112, 97, 121, 108, 111, 97, 100, 95, 100, 105, 114, 101, 116, 111>>)  \* 'payload_direto'
    /\ storedPair(transactionsFile, last.body)
         = <<DirectTtclid, Str(<<112, 97, 121, 108, 111, 97, 100, 95, 100, 105, 114, 101, 116, 111>>)>>  \* 'payload_direto'

\* C9: no request removes a key from the transactions file: the ids stored
\* before a request are stored after it.
C9_NoRecordDeleted ==
    [][DOMAIN loadFile(transactionsFile) \subseteq DOMAIN loadFile(transactionsFile')]_vars

\* a merge for tx2 has been written and the record of tx1 is still stored
C9_Witness ==
    /\ last.op = "webhook" /\ last.response.code = 200
    /\ extractTransactionId(last.body) = Tx2
    /\ DOMAIN loadFile(transactionsFile) = {Tx1.s, Tx2.s}

\* records that may be stored for the transaction of a payload before a merge
priorRecordsFor(payload) ==
    { transactionRecord(p, extractTransactionId(payload), r, SomeTime) :
        p \in {q \in FieldPayloads : Get(q, "created_at") # Undef \/ Get(q, "customer") # Undef},
        r \in {Resolution(Null, Null),
               Resolution(Str(<<65>>),  \* 'A'
                          Str(<<112, 97, 121, 108, 111, 97, 100, 95, 100, 105, 114, 101, 116, 111>>))} }  \* 'payload_direto'

\* the record the handler stores for a payload when it finds the given record
mergedOver(payload, prior, utmFile) ==
    RecordOf(webhookHandler("POST", payload,
                            OkFile(Assign(<<>>, JsToString(extractTransactionId(payload)), prior)),
                            utmFile, SomeTime).file,
             payload)

\* a stored record without the fields the prior record may bear on
exceptAttribution(record) ==
    [n \in DOMAIN record.f \ {"ttclid", "ttclid_source", "updated_at"} |-> record.f[n]]

\* C10: the record a merge has stored agrees, in every field other than ttclid,
\* ttclid_source and updated_at, with the record the same payload gives when
\* merged over any other prior record of the transaction; and when no source
\* of the payload or stored blob offers a ttclid, its ttclid is the prior
\* record's.
C10_FieldsFromPayloadAlone ==
    last.op = "webhook" /\ last.response.code = 200
      => \A prior \in priorRecordsFor(last.body) :
            /\ exceptAttribution(mergedOver(last.body, prior, utmQueriesFile))
                 = exceptAttribution(RecordOf(transactionsFile, last.body))
            /\ offering(last.body, utmQueriesFile) = {}
                 => Get(mergedOver(last.body, prior, utmQueriesFile), "ttclid")
                      = Get(prior, "ttclid")

\* a payload with a status and an amount has been merged over a record that
\* held a ttclid: status and amount are the payload's, the ttclid the record's
C10_Witness ==
    /\ last.op = "webhook" /\ last.response.code = 200
    /\ last.priorSource = Str(<<112, 97, 121, 108, 111, 97, 100, 95, 100, 105, 114, 101, 116, 111>>)  \* 'payload_direto'
    /\ Get(last.body, "amount") = Num(50)
    /\ Get(RecordOf(transactionsFile, last.body), "valor") = Num(50)
    /\ Get(RecordOf(transactionsFile, last.body), "status") = Str(<<80, 69, 78, 68, 73, 78, 71>>)  \* 'PENDING'
    /\ storedPair(transactionsFile, last.body)
         = <<DirectTtclid, Str(<<116, 114, 97, 110, 115, 97, 99, 116, 105, 111, 110, 115, 95, 106, 115, 111, 110>>)>>  \* 'transactions_json'

-----------------------------------------------------------------------------
(* Webhook deliveries handled by processes that share os.tmpdir().  The     *)
(* handler does not await between reading and writing the transactions      *)
(* file, so within one process its body runs to completion; two processes   *)
(* interleave at their file operations: readFileSync of the transactions    *)
(* file (line 121), existsSync and readFileSync of the utm queries file      *)
(* (lines 130-132), writeFileSync of the transactions file (line 213).      *)
(* pc[w] is the position of process w, local[w] its variables; wrote, and   *)
(* the sets readAfter and wroteAfter of the processes that had written      *)
(* before w read and before w wrote, record the order of the operations.    *)

Workers == {"w1", "w2"}

\* the deliveries: one for each transaction id, one without identity, one with
\* an undecodable payload.utm
ConcurrentPayloads ==
    { Attribution(DirectTtclid, Undef, Undef, Undef),
      Attribution(Undef, Undef, Undef, Undef),
      ObjOf([transaction_id |-> Tx2, status |-> Str(<<112, 101, 110, 100, 101, 110, 116, 101>>)]),  \* 'pendente'
      ObjOf([status |-> Str(<<112, 97, 105, 100>>)]),  \* 'paid'
      Attribution(Undef, Undef, Undef, UtmMalformed) }

NoLocals ==
    [payload |-> Undef, transactionId |-> Null, transactions |-> <<>>, record |-> Undef,
     response |-> Response(0, <<>>), wrote |-> FALSE, readAfter |-> {}, wroteAfter |-> {}]

\* the processes that have written the transactions file
writers == {v \in Workers : local[v].wrote}

InitConcurrent ==
    /\ transactionsFile \in {MissingFile, CorruptFile}
    /\ utmQueriesFile = MissingFile
    /\ last = NoRequest
    /\ pc = [w \in Workers |-> "idle"]
    /\ local = [w \in Workers |-> NoLocals]

\* the write done on the file as it is when written, not as it was when read
writeTransactionsCurrent(file, transactions, key, record) ==
    OkFile(Assign(loadFile(file), key, record))

\* line 213: fs.writeFileSync(TRANSACTIONS_FILE, JSON.stringify(transactions)),
\* transactions being the object read at line 121 with the record assigned
writeTransactions(file, transactions, key, record) ==
    OkFile(Assign(transactions, key, record))

\* lines 50-124: the request arrives; without identity it is answered 400,
\* otherwise the transactions file is read
Receive(w, payload) ==
    /\ pc[w] = "idle"
    /\ IF ~Truthy(extractTransactionId(payload))
       THEN /\ pc' = [pc EXCEPT ![w] = "done"]
            /\ local' = [local EXCEPT ![w].payload = payload,
                                      ![w].response = webhookHandler("POST", payload,
                                          transactionsFile, utmQueriesFile, SomeTime).response]
       ELSE /\ pc' = [pc EXCEPT ![w] = "loaded"]
            /\ local' = [local EXCEPT ![w].payload = payload,
                                      ![w].transactionId = extractTransactionId(payload),
                                      ![w].transactions = loadFile(transactionsFile),
                                      ![w].readAfter = writers]
    /\ UNCHANGED <<transactionsFile, utmQueriesFile, last>>

\* lines 126-211: the utm queries file is read, the cascade run and the record
\* built; an exception is answered 500
Resolve(w) ==
    /\ pc[w] = "loaded"
    /\ \E r \in {resolveTtclid(local[w].payload, JsToString(local[w].transactionId),
                               local[w].transactions, utmQueriesFile)} :
          IF r.threw
          THEN /\ pc' = [pc EXCEPT ![w] = "done"]
               /\ local' = [local EXCEPT ![w].response =
                                Response(500, [error |-> "Internal server error"])]
          ELSE /\ pc' = [pc EXCEPT ![w] = "resolved"]
               /\ local' = [local EXCEPT ![w].record =
                                transactionRecord(local[w].payload, local[w].transactionId,
                                                  r, SomeTime)]
    /\ UNCHANGED <<transactionsFile, utmQueriesFile, last>>

\* lines 213-226: the transactions file is written and the request answered 200
Write(w) ==
    /\ pc[w] = "resolved"
    /\ transactionsFile' = writeTransactions(transactionsFile, local[w].transactions,
                                             JsToString(local[w].transactionId),
                                             local[w].record)
    /\ pc' = [pc EXCEPT ![w] = "done"]
    /\ local' = [local EXCEPT ![w].wrote = TRUE,
                              ![w].wroteAfter = writers,
                              ![w].response =
                                  writeAndRespond(local[w].transactions,
                                                  JsToString(local[w].transactionId),
                                                  local[w].record).response]
    /\ UNCHANGED <<utmQueriesFile, last>>

NextConcurrent ==
    \/ \E w \in Workers, payload \in ConcurrentPayloads : Receive(w, payload)
    \/ \E w \in Workers : Resolve(w)
    \/ \E w \in Workers : Write(w)
    \/ SaveUtmQuery("POST", SomeCapture, SomeTime)

SpecConcurrent == InitConcurrent /\ [][NextConcurrent]_vars

\* w and v answered 200 for different transaction ids, both read the
\* transactions file before either wrote it, and w wrote first
bothReadThenWrote(w, v) ==
    /\ w # v
    /\ pc[w] = "done" /\ pc[v] = "done"
    /\ local[w].response.code = 200 /\ local[v].response.code = 200
    /\ local[w].transactionId # local[v].transactionId
    /\ local[w].readAfter = {} /\ local[v].readAfter = {}
    /\ local[w].wroteAfter = {} /\ local[v].wroteAfter = {w}

\* C8: whenever two deliveries for different transaction ids both read the
\* transactions file before either writes it, both are answered 200 and the
\* file ends as the later writer wrote it: what that process had read plus its
\* own record, without the record the earlier writer wrote.
C8_ConcurrentMergesLoseUpdates ==
    \A w, v \in Workers :
        bothReadThenWrote(w, v)
          => /\ transactionsFile
                  = OkFile(Assign(local[v].transactions, JsToString(local[v].transactionId),
                                  local[v].record))
             /\ JsToString(local[w].transactionId) \notin DOMAIN transactionsFile.data

\* the interleaving: w1 and w2 read, w1 wrote tx1, w2 wrote tx2; both were
\* answered success and the file holds tx2 alone
C8_Witness ==
    /\ bothReadThenWrote("w1", "w2")
    /\ local["w1"].transactionId = Tx1 /\ local["w2"].transactionId = Tx2
    /\ local["w1"].response.body.success /\ local["w2"].response.body.success
    /\ DOMAIN transactionsFile.data = {Tx2.s}

-----------------------------------------------------------------------------
(* What a merge keeps of the stored record (requests handled one at a time) *)

\* the record fields a payload can fill, each with the payload properties the
\* handler reads for it (lines 81-107)
fieldSources ==
    [vendor_id |-> {"vendor_id"},
     valor |-> {"valor", "amount"},
     amount |-> {"valor", "amount"},
     descricao |-> {"descricao", "items"},
     cliente_nome |-> {"customer", "cliente_nome"},
     cliente_email |-> {"customer", "cliente_email"},
     cliente_documento |-> {"customer", "cliente_documento"},
     cliente_telefone |-> {"customer"},
     created_at |-> {"created_at"}]

\* the payload has none of the properties a record field is read from
omits(payload, field) ==
    \A n \in fieldSources[field] : Get(payload, n) = Undef

\* the stored record holds a value in the field
holds(record, field) ==
    record # Undef /\ Get(record, field) \notin {Undef, Null}

\* C11: a merge whose payload omits a field that the stored record of the
\* transaction holds leaves that field of the record as it was.
C11_MergePreservesAbsentFields ==
    [][webhookMerged
         => \A field \in DOMAIN fieldSources :
               (/\ omits(last'.body, field)
                /\ holds(RecordOf(transactionsFile, last'.body), field))
               => Get(RecordOf(transactionsFile', last'.body), field)
                    = Get(RecordOf(transactionsFile, last'.body), field)]_vars

\* a payload without amount, vendor id, customer data and created-at has been
\* merged over a stored record of its transaction, and the record now stored
\* holds none of them
C11_Witness ==
    /\ last.op = "webhook" /\ last.response.code = 200 /\ last.repeated = FALSE
    /\ last.priorSource # Undef
    /\ extractTransactionId(last.body) = Tx2
    /\ \A field \in DOMAIN fieldSources : omits(last.body, field)
    /\ \A field \in DOMAIN fieldSources :
          Get(RecordOf(transactionsFile, last.body), field) \in {Undef, Null}

-----------------------------------------------------------------------------
(* Status strings: the paid determination of the webhook (lines 82-83 and   *)
(* 109-116), isPaidStatus of the poll endpoint (lines 15-19), and the poll  *)
(* of a record whose status came from a webhook or from the payment API.    *)

\* the six paid statuses, statuses of the status map, and other statuses
StatusWords ==
    { <<99, 111, 110, 102, 105, 114, 109, 97, 100, 111>>,  \* 'confirmado'
      <<112, 97, 103, 111>>,  \* 'pago'
      <<112, 97, 105, 100>>,  \* 'paid'
      <<99, 111, 109, 112, 108, 101, 116, 101, 100>>,  \* 'completed'
      <<97, 112, 114, 111, 118, 97, 100, 111>>,  \* 'aprovado'
      <<97, 112, 112, 114, 111, 118, 101, 100>>,  \* 'approved'
      <<112, 101, 110, 100, 105, 110, 103>>,  \* 'pending'
      <<112, 101, 110, 100, 101, 110, 116, 101>>,  \* 'pendente'
      <<119, 97, 105, 116, 105, 110, 103, 95, 112, 97, 121, 109, 101, 110, 116>>,  \* 'waiting_payment'
      <<99, 97, 110, 99, 101, 108, 101, 100>>,  \* 'canceled'
      <<114, 101, 102, 117, 110, 100, 101, 100>>,  \* 'refunded'
      <<99, 111, 110, 115, 116, 114, 117, 99, 116, 111, 114>>,  \* 'constructor'
      <<112, 97, 103, 111, 115>> }  \* 'pagos'

\* a word with its first letter in upper case
capitalized(w) ==
    [i \in 1..Len(w) |-> IF i = 1 /\ w[i] >= 97 /\ w[i] <= 122 THEN w[i] - 32 ELSE w[i]]

\* a word in upper case, written without toUpperCase
upperCased(w) ==
    [i \in 1..Len(w) |-> IF w[i] >= 97 /\ w[i] <= 122 THEN w[i] - 32 ELSE w[i]]

\* each word in lower case, in upper case and capitalized; a status within
\* white space; a status of white space alone
StatusStrings ==
    StatusWords \cup {upperCased(w) : w \in StatusWords}
        \cup {capitalized(w) : w \in StatusWords}
        \cup { <<32, 112, 97, 103, 111, 32>>,  \* ' pago '
               <<80, 97, 105, 100, 10>>,  \* 'Paid\n'
               <<32>>,  \* ' '
               <<>> }  \* ''

\* a webhook payload for Tx1 with the status
StatusPayload(s) == ObjOf([transaction_id |-> Tx1, status |-> Str(s)])

\* how the request to the payment API ends: a body with the status, a body
\* without one, and the requests that fail
StatusRemotes ==
    { [kind |-> "response", statusCode |-> 200,
       data |-> <<123, 34, 115, 116, 97, 116, 117, 115, 34, 58, 34>> \o s \o <<34, 125>>] :  \* '{"status":"' s '"}'
        s \in {w \in StatusStrings : \A i \in 1..Len(w) : w[i] > 32} }
      \cup { [kind |-> "response", statusCode |-> 200, data |-> <<123, 125>>],  \* '{}'
             [kind |-> "response", statusCode |-> 200, data |-> <<110, 117, 108, 108>>],  \* 'null'
             [kind |-> "response", statusCode |-> 200,
              data |-> <<66, 97, 100, 32, 71, 97, 116, 101, 119, 97, 121>>],  \* 'Bad Gateway'
             [kind |-> "response", statusCode |-> 503,
              data |-> <<123, 34, 115, 116, 97, 116, 117, 115, 34, 58, 34, 112, 97, 105, 100, 34, 125>>],  \* '{"status":"paid"}'
             [kind |-> "error", statusCode |-> 0, data |-> <<>>],
             [kind |-> "timeout", statusCode |-> 0, data |-> <<>>] }

\* the ids checkPaymentViaAPI is called with
RemoteIds == {Tx1, Str(<<55296>>)}  \* 'tx1', '\uD800'

\* a call of checkPaymentViaAPI: the response holds how the request ended,
\* transaction what the promise was settled with
CheckPaymentViaAPI(transactionId, remote) ==
    /\ last' = [Handled("checkPaymentViaAPI", "call", transactionId,
                        Response(0, [remote |-> remote]), Undef, TRUE)
                   EXCEPT !.transaction = checkPaymentViaAPI(transactionId, remote, SomeTime)]
    /\ UNCHANGED <<transactionsFile, utmQueriesFile, pc, local>>

\* a call of isPaidStatus
IsPaidStatus(s) ==
    /\ last' = Handled("isPaidStatus", "call", Str(s), Response(0, [paid |-> isPaidStatus(s)]),
                       Undef, FALSE)
    /\ UNCHANGED <<transactionsFile, utmQueriesFile, pc, local>>

NextStatus ==
    \/ \E s \in StatusStrings : Webhook("POST", StatusPayload(s), SomeTime)
    \/ \E s \in StatusStrings : IsPaidStatus(s)
    \/ \E remote \in StatusRemotes : VerifyPayment("POST", Obj([id |-> Tx1]), remote, SomeTime)

SpecStatus == Init /\ [][NextStatus]_vars

\* calls of checkPaymentViaAPI, and polls that find no record in the file
NextRemote ==
    \/ \E transactionId \in RemoteIds, remote \in StatusRemotes :
          CheckPaymentViaAPI(transactionId, remote)
    \/ \E id \in RemoteIds, remote \in StatusRemotes :
          VerifyPayment("POST", Obj([id |-> id]), remote, SomeTime)

SpecRemote == Init /\ [][NextRemote]_vars

\* the six statuses the spec names as paid
paidWords ==
    { <<99, 111, 110, 102, 105, 114, 109, 97, 100, 111>>,  \* 'confirmado'
      <<112, 97, 103, 111>>,  \* 'pago'
      <<112, 97, 105, 100>>,  \* 'paid'
      <<99, 111, 109, 112, 108, 101, 116, 101, 100>>,  \* 'completed'
      <<97, 112, 114, 111, 118, 97, 100, 111>>,  \* 'aprovado'
      <<97, 112, 112, 114, 111, 118, 101, 100>> }  \* 'approved'

\* two code units are the same letter in either case, or the same code unit
sameLetter(a, b) ==
    \/ a = b
    \/ a >= 65 /\ a <= 90 /\ b = a + 32
    \/ b >= 65 /\ b <= 90 /\ a = b + 32

\* the string compared case-insensitively is one of the six paid statuses
namesPaid(s) ==
    \E w \in paidWords : Len(w) = Len(s) /\ \A i \in 1..Len(s) : sameLetter(s[i], w[i])

\* the paid flag the last request gave: stored and answered by a webhook
\* merge, returned by isPaidStatus
gavePaid ==
    IF last.op = "webhook"
    THEN Get(RecordOf(transactionsFile, last.body), "paid") = Bool(TRUE)
         /\ last.response.body.paid
    ELSE last.response.body.paid

\* C12 as stated: for every status string, the webhook merge stores paid =
\* true, and isPaidStatus returns true, exactly when the string compared
\* case-insensitively is one of the six paid statuses.
C12_PaidIffNamesPaid ==
    (\/ last.op = "webhook" /\ last.response.code = 200
     \/ last.op = "isPaidStatus")
    => (gavePaid <=> namesPaid(IF last.op = "webhook" THEN Get(last.body, "status").s
                               ELSE last.body.s))

\* C12: isPaidStatus returns true exactly when the string compared
\* case-insensitively is one of the six paid statuses, and the webhook merge
\* stores and answers paid = true exactly when the status without the white
\* space around it is.
C12_PaidIffTrimmedNamesPaid ==
    /\ last.op = "isPaidStatus" => (gavePaid <=> namesPaid(last.body.s))
    /\ last.op = "webhook" /\ last.response.code = 200
         => (gavePaid <=> namesPaid(trim(Get(last.body, "status").s)))
    /\ last.op = "webhook" /\ last.response.code = 200
         => (Get(RecordOf(transactionsFile, last.body), "paid") = Bool(FALSE)
               <=> ~last.response.body.paid)

\* 'Pago' has been merged with paid = true
C12_Witness ==
    /\ last.op = "webhook" /\ last.response.code = 200
    /\ Get(last.body, "status") = Str(<<80, 97, 103, 111>>)  \* 'Pago'
    /\ Get(RecordOf(transactionsFile, last.body), "paid") = Bool(TRUE)

-----------------------------------------------------------------------------
(* The poll of a transaction that was found, in the file or by the payment  *)
(* API.                                                                     *)

\* the last request is a poll answered from a transaction
pollAnswered ==
    /\ last.op = "verifyPayment" /\ last.method = "POST"
    /\ last.response.code = 200
    /\ Truthy(last.transaction)

\* the lowercased raw status of the polled transaction, 'pending' when it has
\* none
rawStatusLower ==
    IF Truthy(Get(last.transaction, "status"))
    THEN toLowerCase(Get(last.transaction, "status").s)
    ELSE <<112, 101, 110, 100, 105, 110, 103>>  \* 'pending'

\* the status table of the spec
canonicalOf(status) ==
    IF status \in { <<112, 101, 110, 100, 101, 110, 116, 101>>,  \* 'pendente'
                    <<119, 97, 105, 116, 105, 110, 103, 95, 112, 97, 121, 109, 101, 110, 116>> }  \* 'waiting_payment'
    THEN <<112, 101, 110, 100, 105, 110, 103>>  \* 'pending'
    ELSE status

\* C13 as stated: the poll of a found transaction returns 'paid' when paid is
\* true, and otherwise the lowercased raw status with pendente and
\* waiting_payment mapped to pending and every other value unchanged.
C13_CanonicalStatusMapping ==
    pollAnswered
      => last.response.body.status
           = IF last.response.body.paid THEN Str(<<112, 97, 105, 100>>)  \* 'paid'
             ELSE Str(canonicalOf(rawStatusLower))

\* the lowercased raw status names something every object inherits
inheritedName(status) ==
    status \in { <<99, 111, 110, 115, 116, 114, 117, 99, 116, 111, 114>>,  \* 'constructor'
                 <<95, 95, 112, 114, 111, 116, 111, 95, 95>> }  \* '__proto__'

\* C13: the mapping holds for every found transaction whose lowercased raw
\* status is not a name that the status map inherits from Object.prototype.
C13_MappingOfOwnNames ==
    pollAnswered /\ ~inheritedName(rawStatusLower)
      => /\ last.response.body.status
              = IF last.response.body.paid THEN Str(<<112, 97, 105, 100>>)  \* 'paid'
                ELSE Str(canonicalOf(rawStatusLower))
         /\ last.response.body.transaction.status = last.response.body.status

\* a stored record with status 'PENDENTE' and paid = false has been polled:
\* the status returned is 'pending'
C13_Witness ==
    /\ pollAnswered /\ ~last.queried
    /\ Get(last.transaction, "status") = Str(<<80, 69, 78, 68, 69, 78, 84, 69>>)  \* 'PENDENTE'
    /\ ~last.response.body.paid
    /\ last.response.body.status = Str(<<112, 101, 110, 100, 105, 110, 103>>)  \* 'pending'

\* the id a poll body asks for (line 111: transactionId || paymentId)
searchKeyOf(body) == Or(Get(body, "id"), Get(body, "payment_id"))

\* no record of the file is stored under the id or bears it as transaction_id
\* or payment_id
noneStored(file, id) ==
    \A k \in DOMAIN loadFile(file) :
        /\ k # JsToString(id)
        /\ Get(loadFile(file)[k], "transaction_id") # id
        /\ Get(loadFile(file)[k], "payment_id") # id

\* the last request is a poll for an id that no stored record matches
polledUnknown ==
    /\ last.op = "verifyPayment" /\ last.method = "POST"
    /\ Truthy(searchKeyOf(last.body))
    /\ noneStored(transactionsFile, searchKeyOf(last.body))

\* C14 as stated: a poll for an id that no stored record matches is answered
\* with 200, success = true, status = 'pending' and paid = false unless the
\* payment API yields a record, and never with an error status, whatever the
\* state of the store file.
C14_UnknownResolvesToPending ==
    polledUnknown
      => /\ last.response.code = 200
         /\ ~Truthy(last.transaction)
              => /\ last.response.body.status = Str(<<112, 101, 110, 100, 105, 110, 103>>)  \* 'pending'
                 /\ last.response.body.paid = FALSE

\* C14: a poll for an id that no stored record matches and that
\* encodeURIComponent can encode queries the payment API, and when that
\* yields nothing the answer is 200 with success = true, status = 'pending'
\* and paid = false; no such poll is answered with an error status, whatever
\* the state of the store file.
C14_EncodableUnknownResolvesToPending ==
    (polledUnknown /\ ~encodeURIComponentThrows(JsToString(searchKeyOf(last.body))))
    => /\ last.queried
       /\ last.response.code = 200
       /\ ~Truthy(last.transaction)
            => /\ last.response.body.success
               /\ last.response.body.status = Str(<<112, 101, 110, 100, 105, 110, 103>>)  \* 'pending'
               /\ last.response.body.paid = FALSE
               /\ "transaction" \notin DOMAIN last.response.body

\* a poll found the store file unreadable and the payment API yielded
\* nothing: the answer is pending
C14_Witness ==
    /\ last.op = "verifyPayment" /\ last.method = "POST"
    /\ transactionsFile = CorruptFile
    /\ last.queried /\ last.transaction = Null
    /\ last.response.code = 200
    /\ last.response.body.status = Str(<<112, 101, 110, 100, 105, 110, 103>>)  \* 'pending'
    /\ last.response.body.paid = FALSE

-----------------------------------------------------------------------------
(* The query of the payment API                                             *)

\* the request failed: a transport error, a timeout, a response that is not
\* 200, or a body that JSON.parse rejects
failed(remote) ==
    \/ remote.kind \in {"error", "timeout"}
    \/ remote.statusCode # 200
    \/ JSONparse(Str(remote.data)).threw

\* the request ended with a 200 response whose body is a JSON object
validBody(remote) ==
    ~failed(remote) /\ JSONparse(Str(remote.data)).value.t = "json_object"

\* the last request is a call of checkPaymentViaAPI
calledRemote == last.op = "checkPaymentViaAPI"

\* what a call resolved to is what the claim says of how its request ended
resolvedAsClaimed ==
    /\ failed(last.response.body.remote) => last.transaction = Null
    /\ validBody(last.response.body.remote)
         => /\ last.transaction.t = "object"
            /\ DOMAIN last.transaction.f
                 = {"transaction_id", "status", "valor", "amount", "paid", "updated_at"}

\* a poll that queried the payment API and got null answered pending
nullAnsweredPending ==
    (/\ last.op = "verifyPayment"
     /\ last.queried /\ last.transaction = Null)
    => /\ last.response.code = 200
       /\ last.response.body.status = Str(<<112, 101, 110, 100, 105, 110, 103>>)  \* 'pending'
       /\ last.response.body.paid = FALSE

\* C15 as stated: however the request to the payment API ends,
\* checkPaymentViaAPI resolves, to null when the request failed and to a
\* record when the body is valid, and never rejects; on null the poll
\* answers status 'pending' and paid = false.
C15_RemoteQueryNeverRejects ==
    /\ calledRemote => last.transaction # Rejected /\ resolvedAsClaimed
    /\ last.op = "verifyPayment" => last.transaction # Rejected
    /\ nullAnsweredPending

\* C15: for an id that encodeURIComponent can encode, checkPaymentViaAPI
\* resolves, to null when the request failed and to a record when the body is
\* valid, and does not reject; on null the poll answers status 'pending' and
\* paid = false.
C15_EncodableIdNeverRejects ==
    /\ calledRemote /\ ~encodeURIComponentThrows(JsToString(last.body))
         => last.transaction # Rejected /\ resolvedAsClaimed
    /\ last.op = "verifyPayment"
         /\ ~encodeURIComponentThrows(JsToString(searchKeyOf(last.body)))
         => last.transaction # Rejected
    /\ nullAnsweredPending

\* the request for 'tx1' timed out and the promise resolved to null
C15_Witness ==
    /\ calledRemote
    /\ last.body = Tx1
    /\ last.response.body.remote.kind = "timeout"
    /\ last.transaction = Null

-----------------------------------------------------------------------------
(* The transaction id of a webhook payload (lines 69-79) and the key the    *)
(* record is stored under (line 192).                                       *)

\* payloads with each of the three id properties empty (transaction_id '',
\* transactionId absent, _id an empty object) or holding an id of its own;
\* _id is an object with $oid or a string
IdOrderPayloads ==
    { ObjOf([transaction_id |-> a, transactionId |-> b, status |-> StatusPago] @@ ("_id" :> c)) :
        a \in {Str(<<>>), Str(<<116, 97>>)},  \* '', 'ta'
        b \in {Undef, Str(<<116, 98>>)},  \* 'tb'
        c \in {Obj(("$oid" :> Str(<<116, 99>>))),  \* 'tc'
               Str(<<116, 100>>),  \* 'td'
               Obj(<<>>)} }

\* payloads whose id is a number, and the name '__proto__'
UnusualIdPayloads ==
    { ObjOf([transaction_id |-> Num(7), status |-> StatusPago]),
      ObjOf([transaction_id |-> Str(<<95, 95, 112, 114, 111, 116, 111, 95, 95>>),  \* '__proto__'
             status |-> StatusPago]) }

NextIdentity ==
    \E payload \in IdOrderPayloads \cup UnusualIdPayloads : Webhook("POST", payload, SomeTime)

SpecIdentity == Init /\ [][NextIdentity]_vars

\* the four places of the claim, in its order: payload._id counts only when
\* it is a string
idPlaces(payload) ==
    << Get(payload, "transaction_id"), Get(payload, "transactionId"),
       Get(Get(payload, "_id"), "$oid"),
       IF Get(payload, "_id").t = "string" THEN Get(payload, "_id") ELSE Undef >>

\* the first non-empty place, Null when all are empty
firstId(payload) ==
    IF \A i \in 1..4 : ~Truthy(idPlaces(payload)[i]) THEN Null
    ELSE idPlaces(payload)[MinOf({i \in 1..4 : Truthy(idPlaces(payload)[i])})]

\* the file holds a record under the id, with transaction_id equal to it
storedUnder(file, id) ==
    /\ JsToString(id) \in DOMAIN loadFile(file)
    /\ Get(loadFile(file)[JsToString(id)], "transaction_id") = id

\* the last request is a webhook whose payload has an id in some place
postedWithId ==
    /\ last.op = "webhook" /\ last.method = "POST"
    /\ Truthy(firstId(last.body))

\* C16 as stated: the id of a webhook is the first non-empty of
\* payload.transaction_id, payload.transactionId, payload._id.$oid and
\* payload._id when a string; the response names that id and the record is
\* stored under exactly that id with transaction_id equal to it.
C16_StoredUnderFirstId ==
    postedWithId
      => /\ last.response.code = 200
         /\ last.response.body.transaction_id = firstId(last.body)
         /\ storedUnder(transactionsFile, firstId(last.body))

\* C16: the same, for every id other than '__proto__'.
C16_StoredUnderFirstOwnId ==
    (/\ postedWithId
     /\ JsToString(firstId(last.body)) # <<95, 95, 112, 114, 111, 116, 111, 95, 95>>)  \* '__proto__'
    => /\ last.response.code = 200
       /\ last.response.body.transaction_id = firstId(last.body)
       /\ storedUnder(transactionsFile, firstId(last.body))

\* a payload with transactionId 'tb' and _id.$oid 'tc' but an empty
\* transaction_id has been stored under 'tb'
C16_Witness ==
    /\ last.op = "webhook" /\ last.response.code = 200
    /\ Get(last.body, "transaction_id") = Str(<<>>)
    /\ Get(last.body, "transactionId") = Str(<<116, 98>>)  \* 'tb'
    /\ Get(Get(last.body, "_id"), "$oid") = Str(<<116, 99>>)  \* 'tc'
    /\ storedUnder(transactionsFile, Str(<<116, 98>>))  \* 'tb'
    /\ <<116, 99>> \notin DOMAIN loadFile(transactionsFile)  \* 'tc'

-----------------------------------------------------------------------------
(* Webhooks followed by polls.  local, which the handlers of one process do  *)
(* not use, notes for each id the paid flag that the latest successful      *)
(* webhook for it answered.                                                  *)

\* the ids: a string, a number, and the name '__proto__'
VisibleIds == {Tx1, Num(7), Str(<<95, 95, 112, 114, 111, 116, 111, 95, 95>>)}  \* '__proto__'

\* for each id a paid and an unpaid payload, and for Tx1 one that is answered
\* 500
VisiblePayloads ==
    { ObjOf([transaction_id |-> id, status |-> st]) :
        id \in VisibleIds,
        st \in {StatusPago, Str(<<112, 101, 110, 100, 101, 110, 116, 101>>)} }  \* 'pendente'
      \cup {Attribution(Undef, QueryMalformed, Undef, UtmGood)}

\* a webhook request, noted when it succeeds
WebhookNoted(payload) ==
    \E out \in {webhookHandler("POST", payload, transactionsFile, utmQueriesFile, SomeTime)} :
        /\ transactionsFile' = out.file
        /\ last' = Handled("webhook", "POST", payload, out.response,
                           Get(RecordOf(transactionsFile, payload), "ttclid_source"), FALSE)
        /\ local' = IF out.response.code = 200
                    THEN (JsToString(extractTransactionId(payload)) :> out.response.body.paid)
                             @@ local
                    ELSE local
        /\ UNCHANGED <<utmQueriesFile, pc>>

NextVisible ==
    \/ \E payload \in VisiblePayloads : WebhookNoted(payload)
    \/ \E id \in VisibleIds, remote \in RemoteOutcomes :
          VerifyPayment("POST", Obj([id |-> id]), remote, SomeTime)

SpecVisible == Init /\ [][NextVisible]_vars

\* the last request is a poll for an id that a webhook has succeeded for
polledAfterWebhook ==
    /\ last.op = "verifyPayment" /\ last.method = "POST"
    /\ JsToString(searchKeyOf(last.body)) \in DOMAIN local

\* the poll was answered from the file with the paid flag of the latest
\* successful webhook for the id, and with status 'paid' when that is true
answeredAsNoted ==
    /\ ~last.queried
    /\ last.response.code = 200
    /\ last.response.body.paid = local[JsToString(searchKeyOf(last.body))]
    /\ last.response.body.paid
         => last.response.body.status = Str(<<112, 97, 105, 100>>)  \* 'paid'

\* C17 as stated: a poll for an id, after a webhook for that id succeeded with
\* paid = p and no later one did, finds the record in the file without
\* querying the payment API and returns paid = p, with status 'paid' when p
\* is true.
C17_WebhookVisibleToPoll ==
    polledAfterWebhook => answeredAsNoted

\* C17: the same, for every id other than '__proto__'.
C17_WebhookOfOwnIdVisibleToPoll ==
    (/\ polledAfterWebhook
     /\ JsToString(searchKeyOf(last.body)) # <<95, 95, 112, 114, 111, 116, 111, 95, 95>>)  \* '__proto__'
    => answeredAsNoted

\* a poll for 'tx1' after a webhook that answered paid = true: status 'paid',
\* no query of the payment API
C17_Witness ==
    /\ polledAfterWebhook
    /\ searchKeyOf(last.body) = Tx1
    /\ local[Tx1.s] = TRUE
    /\ ~last.queried
    /\ last.response.body.paid
    /\ last.response.body.status = Str(<<112, 97, 105, 100>>)  \* 'paid'

-----------------------------------------------------------------------------
(* What a webhook leaves alone (requests handled one at a time)             *)

\* the key the payload of the webhook just handled is merged under
mergedKey == JsToString(extractTransactionId(last'.body))

\* C18: a successful merge that found the store file readable leaves the
\* record of every other transaction id as it was, and a webhook answered 400
\* or 500 leaves the store file as it was.
C18_OtherRecordsUntouched ==
    [][webhookPosted
         => /\ (webhookMerged /\ transactionsFile.state = "ok")
                 => \A k \in DOMAIN transactionsFile.data \ {mergedKey} :
                       /\ k \in DOMAIN loadFile(transactionsFile')
                       /\ loadFile(transactionsFile')[k] = transactionsFile.data[k]
            /\ last'.response.code \in {400, 500}
                 => transactionsFile' = transactionsFile]_vars

\* a merge for tx1 at one instant has left the record of tx2 with the other
\* instant it was written at
C18_Witness ==
    /\ last.op = "webhook" /\ last.response.code = 200
    /\ extractTransactionId(last.body) = Tx1
    /\ Tx2.s \in DOMAIN loadFile(transactionsFile)
    /\ Get(loadFile(transactionsFile)[Tx2.s], "updated_at")
         # Get(loadFile(transactionsFile)[Tx1.s], "updated_at")

-----------------------------------------------------------------------------
(* The status and the paid flag of a poll response                          *)

\* the last request is a poll answered 200
pollSucceeded ==
    /\ last.op = "verifyPayment" /\ last.method = "POST"
    /\ last.response.code = 200

\* the response says 'paid'
saysPaid == last.response.body.status = Str(<<112, 97, 105, 100>>)  \* 'paid'

\* C19 as stated: in every successful poll response, from a stored record or
\* from a record of the payment API, the status is 'paid' exactly when the
\* paid flag is true.
C19_StatusPaidIffPaidFlag ==
    pollSucceeded => (saysPaid <=> last.response.body.paid)

\* C19: in every successful poll response a true paid flag comes with the
\* status 'paid', and a response made from a stored record or from no record
\* has the status 'paid' only with a true paid flag.
C19_PaidFlagImpliesStatusPaid ==
    pollSucceeded
      => /\ last.response.body.paid => saysPaid
         /\ ~last.queried \/ ~Truthy(last.transaction)
              => (saysPaid => last.response.body.paid)

\* a stored record with status 'PAID' has been polled: status 'paid' and
\* paid = true
C19_Witness ==
    /\ pollSucceeded /\ ~last.queried
    /\ Get(last.transaction, "status") = Str(<<80, 65, 73, 68>>)  \* 'PAID'
    /\ saysPaid
    /\ last.response.body.paid

-----------------------------------------------------------------------------
(* The ttclid and its source tag in the stored records                      *)

-----------------------------------------------------------------------------
(* What a poll leaves alone                                                 *)

\* the request just handled is a poll
polled == last'.op = "verifyPayment"

\* the request just handled is the POST poll handled before it, once more
polledAgain ==
    /\ last.op = "verifyPayment" /\ last.method = "POST"
    /\ polled /\ last'.method = "POST"
    /\ last'.body = last.body

\* C21: a poll, whatever its method and outcome, leaves the transactions file
\* and the utm queries file as they were; and a poll that follows a poll of
\* the same body that queried the payment API queries it again.
C21_PollingIsReadOnly ==
    [][/\ polled => /\ transactionsFile' = transactionsFile
                    /\ utmQueriesFile' = utmQueriesFile
       /\ (polledAgain /\ last.queried) => last'.queried]_vars

\* a poll that the payment API answered with a paid record has been repeated:
\* the payment API was queried again and the file holds no record of the id
C21_Witness ==
    /\ last.op = "verifyPayment" /\ last.method = "POST"
    /\ last.repeated /\ last.queried
    /\ Truthy(last.transaction) /\ last.transaction # Rejected
    /\ last.response.code = 200 /\ last.response.body.paid
    /\ noneStored(transactionsFile, searchKeyOf(last.body))

====
